---------------------------- MODULE Spec2Model ----------------------------
(***************************************************************************)
(* A model of hikari-ryoshu's component manager (ryoshu/impl/manager.py)   *)
(* and of the pieces of the component factory it calls.                    *)
(*                                                                         *)
(* Conventions                                                             *)
(*   - a Python str is a sequence of code points (naturals): "A" is <<65>>,*)
(*     "|" is <<124>>, the count character of n is <<n>>;                  *)
(*   - Optional[x] is a sequence of length at most one: None is <<>> and   *)
(*     a present value v is <<v>>;                                         *)
(*   - a manager is named by the segments of its dotted name: "a.b" is     *)
(*     <<"a", "b">> and the root is <<"root">>;                            *)
(*   - a dict is a function over a fixed key universe into Optional.       *)
(***************************************************************************)
EXTENDS Integers, Sequences, FiniteSets, TLC

VARIABLES
    _MANAGER_STORE,      \* manager.py:897   names of the live managers
    _children,           \* manager.py:192   name -> set of child names
    _components,         \* manager.py:193   name -> identifier -> Optional type
                         \*   (the weak dictionary's entries; the garbage
                         \*   collector is not modelled: every class stays alive)
    _identifiers,        \* manager.py:194   name -> class name -> Optional identifier
    _module_data,        \* manager.py:197   name -> identifier -> Optional _ModuleData
    _count,              \* manager.py:195   name -> Optional bool
    _sep,                \* manager.py:198   name -> Optional str
    _counter,            \* manager.py:196   name -> 0..24
    _callback_wrapper,   \* manager.py:199   name -> has a wrapper
    _exception_handler,  \* manager.py:200   name -> has a handler
    type_manager,        \* component/base.py:159  type -> Optional manager name
    sys_modules,         \* sys.modules: module name -> Optional number of the load
    _COMPONENT_CTX,      \* manager.py:25    Optional (component, custom id)
    pc,                  \* position of the invocation pipeline
    managers,            \* manager.py:696   the list built by invoke_component
    todo,                \* manager.py:703   managers still to be wrapped
    stack,               \* manager.py:701   the AsyncExitStack, top last
    exc,                 \* the exception in flight, Optional
    log,                 \* what the invocation ran, in order
    outcome,             \* how invoke_component ended
    last,                \* the last call made on the manager api and its result
    calls,               \* how many calls that change a manager were made
    sample               \* the input a codec run is about

treeVars   == <<_MANAGER_STORE, _children, _components, _identifiers,
                _module_data, type_manager, sys_modules>>
configVars == <<_count, _sep, _counter>>
hookVars   == <<_callback_wrapper, _exception_handler>>
invVars    == <<_COMPONENT_CTX, pc, managers, todo, stack, exc, log, outcome>>
vars       == <<treeVars, configVars, hookVars, invVars, last, calls, sample>>

---------------------------------------------------------------------------
(* Optional values and small helpers.                                      *)

None == <<>>

Some(v) == <<v>>

Get(o) == o[1]

Reverse(s) == [k \in 1..Len(s) |-> s[Len(s) + 1 - k]]

Range(s) == {s[k] : k \in 1..Len(s)}

\* All sequences over S of length lo..hi.
SeqsOf(S, lo, hi) == UNION {[1..n -> S] : n \in lo..hi}

---------------------------------------------------------------------------
(* Bounds of the model.                                                    *)

\* Parameters carried by a sampled custom id.
MaxParams == 2

\* Times a module of the model is reloaded.
MaxReloads == 1

\* Calls that change a manager (register_component, deregister_component,
\* config, make_custom_id) in one run.
MaxCalls == 2

---------------------------------------------------------------------------
(* Code points of the characters the model's strings are made of.          *)

Chr == [A |-> 65, B |-> 66, X |-> 88, Pipe |-> 124, Colon |-> 58,
        Zero |-> 48, LowerA |-> 97, Minus |-> 45, ETX |-> 3]

\* manager.py:70-76: the integer as one byte, decoded as latin-1, is the
\* one-character string whose code point is the integer.
_minimise_count(n) == <<n>>

\* manager.py:79-81
_COUNT_CHARS == {_minimise_count(n) : n \in 0..24}

\* manager.py:82
_DEFAULT_SEP == <<Chr.Pipe>>

\* manager.py:83
_DEFAULT_COUNT == TRUE

\* manager.py:24
_ROOT == <<"root">>

---------------------------------------------------------------------------
(* The universe of the model: managers, component types, modules.          *)

Names == {_ROOT, <<"a">>, <<"a", "b">>, <<"c">>}

ModuleNames == {"m", "n"}

\* Component classes: __name__ (a str) and __module__.  t1 and t2 are two
\* class objects A of module m (as before and after a reload of m), t3 is
\* a class A of another module.
Types == {"t1", "t2", "t3"}

ClassName(t) == <<Chr.A>>

ClassModule(t) == IF t = "t3" THEN "n" ELSE "m"

ClassNames == {ClassName(t) : t \in Types}

\* What a registration may pass as identifier= (None: the class name).
ExplicitIdentifiers == {None, Some(<<Chr.X>>)}

Identifiers == ClassNames \cup {<<Chr.X>>}

---------------------------------------------------------------------------
(* The manager tree.                                                       *)

\* manager.py:182-200: the fields of a freshly constructed manager.
EmptyDict(keys) == [k \in keys |-> None]

\* manager.py:944-954: get_manager's effect on (_MANAGER_STORE, _children).
RECURSIVE get_manager(_, _)
get_manager(name, st) ==
    IF name \in st.store
    THEN st
    ELSE LET st1 == [store |-> st.store \cup {name}, children |-> st.children]
         IN  IF Len(name) > 1
             THEN LET root == SubSeq(name, 1, Len(name) - 1)
                      st2  == get_manager(root, st1)
                  IN  [store    |-> st2.store,
                       children |-> [st2.children EXCEPT ![root] = @ \cup {name}]]
             ELSE st1

\* manager.py:286-295: the name of manager.parent.
parent(name) ==
    IF Len(name) = 1
    THEN IF name = _ROOT THEN None ELSE Some(_ROOT)
    ELSE Some(SubSeq(name, 1, Len(name) - 1))

\* manager.py:900-903: the managers _recurse_parents yields, in order.
RECURSIVE _recurse_parents(_)
_recurse_parents(name) ==
    IF parent(name) = None
    THEN <<name>>
    ELSE <<name>> \o _recurse_parents(Get(parent(name)))

\* manager.py:292-295: reading .parent goes through get_manager, which
\* creates a manager that does not exist yet.
RECURSIVE Touch(_, _)
Touch(names, st) ==
    IF names = <<>> THEN st ELSE Touch(Tail(names), get_manager(Head(names), st))

CurrentStore == [store |-> _MANAGER_STORE, children |-> _children]

\* manager.py:906-914: the managers _recurse_parents_getattr looks at
\* before it returns (the generator is consumed lazily).
RECURSIVE Visited(_, _)
Visited(name, attribute) ==
    IF attribute[name] # None \/ parent(name) = None
    THEN <<name>>
    ELSE <<name>> \o Visited(Get(parent(name)), attribute)

\* A lookup that prefers the value set nearest the root.
_recurse_parents_getattr_root_first(name, attribute, default) ==
    LET chain == Reverse(_recurse_parents(name))
        set   == {k \in 1..Len(chain) : attribute[chain[k]] # None}
    IN  IF set = {} THEN default
        ELSE Get(attribute[chain[CHOOSE k \in set : \A j \in set : k <= j]])

\* manager.py:906-914
_recurse_parents_getattr(name, attribute, default) ==
    LET seen  == Visited(name, attribute)
        final == seen[Len(seen)]
    IN  IF attribute[final] # None THEN Get(attribute[final]) ELSE default

\* manager.py:244-265
count(name) == _recurse_parents_getattr(name, _count, _DEFAULT_COUNT)

\* manager.py:273-284
sep(name) == _recurse_parents_getattr(name, _sep, _DEFAULT_SEP)

---------------------------------------------------------------------------
(* Registration.                                                           *)

\* manager.py:91-94: _ModuleData.from_object reads the module that is
\* id(sys.modules[name]): two module objects alive at the same time never
\* share an id, so the id is the name with the number of the load.
module_id(mod) == <<mod, Get(sys_modules[mod])>>

\* loaded under the class's module name when it is called.
from_object(t) ==
    [name |-> ClassModule(t), id |-> module_id(ClassModule(t))]

\* manager.py:96-100
is_active(md) ==
    IF sys_modules[md.name] = None
    THEN FALSE
    ELSE md.id = module_id(md.name)

\* A reload test that looks at the module object only.
is_reload_of_id_only(md, other) == md.id # other.id

\* manager.py:102-103
is_reload_of(md, other) == md.name = other.name /\ md.id # other.id

\* manager.py:309-312
make_identifier(t) == ClassName(t)

\* manager.py:508: identifier or self.make_identifier(component_type)
resolve_identifier(t, identifier) ==
    IF identifier # None /\ Get(identifier) # <<>>
    THEN Get(identifier)
    ELSE make_identifier(t)

\* A registration written to the target manager only.
registration_targets_self(name) == <<name>>

\* manager.py:537: the managers a registration is written to.
registration_targets(name) == _recurse_parents(name)

\* manager.py:537-540: the loop body, over the managers still to do.
RECURSIVE RegisterLoop(_, _, _, _, _)
RegisterLoop(ms, t, ident, md, st) ==
    IF ms = <<>>
    THEN st
    ELSE RegisterLoop(Tail(ms), t, ident, md,
            [c   |-> [st.c   EXCEPT ![Head(ms)][ident] = Some(t)],
             ids |-> [st.ids EXCEPT ![Head(ms)][ClassName(t)] = Some(ident)],
             md  |-> [st.md  EXCEPT ![Head(ms)][ident] = Some(md)]])

\* manager.py:513-532: the duplicate check against the root manager.
is_duplicate(ident, md) ==
    /\ _components[_ROOT][ident] # None
    /\ ~is_reload_of(md, Get(_module_data[_ROOT][ident]))

\* manager.py:501-542: register_component as a function of the state:
\* the error it raises (None: it returned) and the fields it leaves.
register_component(name, t, identifier) ==
    LET ident == resolve_identifier(t, identifier)
        unchanged == [c |-> _components, ids |-> _identifiers,
                      md |-> _module_data, tm |-> type_manager]
    IN  IF sys_modules[ClassModule(t)] = None
        THEN [err |-> Some("KeyError"), st |-> CurrentStore] @@ unchanged
        ELSE IF is_duplicate(ident, from_object(t))
        THEN [err |-> Some("RuntimeError"),
              st  |-> get_manager(_ROOT, CurrentStore)] @@ unchanged
        ELSE LET done == RegisterLoop(registration_targets(name), t, ident,
                            from_object(t),
                            [c |-> _components, ids |-> _identifiers,
                             md |-> _module_data])
             IN  [err |-> None,
                  st  |-> Touch(_recurse_parents(name),
                                get_manager(_ROOT, CurrentStore)),
                  c   |-> done.c, ids |-> done.ids, md |-> done.md,
                  tm  |-> [type_manager EXCEPT ![t] = Some(name)]]

\* manager.py:564-566: the loop of pops; a pop of a missing key raises
\* KeyError and leaves the pops already made.
RECURSIVE DeregisterLoop(_, _, _)
DeregisterLoop(ms, ident, st) ==
    IF ms = <<>> \/ st.err # None
    THEN st
    ELSE IF st.c[Head(ms)][ident] = None
    THEN [st EXCEPT !.err = Some("KeyError")]
    ELSE IF st.md[Head(ms)][ident] = None
    THEN [c   |-> [st.c EXCEPT ![Head(ms)][ident] = None],
          md  |-> st.md,
          err |-> Some("KeyError")]
    ELSE DeregisterLoop(Tail(ms), ident,
            [c   |-> [st.c  EXCEPT ![Head(ms)][ident] = None],
             md  |-> [st.md EXCEPT ![Head(ms)][ident] = None],
             err |-> None])

\* manager.py:547: the identifier deregister_component looks up.
deregister_identifier(t) == make_identifier(t)

\* manager.py:544-566: deregister_component as a function of the state.
deregister_component(name, t) ==
    LET ident == deregister_identifier(t)
        unchanged == [c |-> _components, md |-> _module_data]
    IN  IF _components[name][ident] = None
        THEN [err |-> Some("KeyError"), st |-> CurrentStore] @@ unchanged
        ELSE LET component == Get(_components[name][ident])
             IN  IF type_manager[component] = None
                 THEN [err |-> Some("TypeError"), st |-> CurrentStore]
                        @@ unchanged
                 ELSE LET owner == Get(type_manager[component])
                          done  == DeregisterLoop(_recurse_parents(owner),
                                      ident, unchanged @@ [err |-> None])
                      IN  [err |-> done.err,
                           st  |-> Touch(_recurse_parents(owner), CurrentStore),
                           c   |-> done.c, md |-> done.md]

---------------------------------------------------------------------------
(* Strings.                                                                *)

\* str.startswith at an offset: sub occurs in s at position k.
OccursAt(s, sub, k) ==
    /\ k + Len(sub) - 1 <= Len(s)
    /\ SubSeq(s, k, k + Len(sub) - 1) = sub

Contains(s, sub) == \E k \in 1..Len(s) : OccursAt(s, sub, k)

\* The first position at or after k where sub occurs in s, 0 if none.
RECURSIVE Find(_, _, _)
Find(s, sub, k) ==
    IF k + Len(sub) - 1 > Len(s) THEN 0
    ELSE IF OccursAt(s, sub, k) THEN k
    ELSE Find(s, sub, k + 1)

\* str.split(sub) for a non-empty sub: the pieces between the occurrences
\* of sub, scanned left to right without overlap.
RECURSIVE Split(_, _)
Split(s, sub) ==
    LET k == Find(s, sub, 1)
    IN  IF k = 0
        THEN <<s>>
        ELSE <<SubSeq(s, 1, k - 1)>>
                \o Split(SubSeq(s, k + Len(sub), Len(s)), sub)

\* str.join
RECURSIVE Join(_, _)
Join(sub, parts) ==
    IF parts = <<>> THEN <<>>
    ELSE IF Len(parts) = 1 THEN parts[1]
    ELSE parts[1] \o sub \o Join(sub, Tail(parts))

\* str.endswith(tuple of one-character strings)
EndsWithAny(s, suffixes) == Len(s) > 0 /\ <<s[Len(s)]>> \in suffixes

---------------------------------------------------------------------------
(* The integer parser (the parser of the model's custom id fields).        *)

\* builtins.py:25: string.digits + string.ascii_lowercase
_INT_CHARS(d) == IF d < 10 THEN Chr.Zero + d ELSE Chr.LowerA + (d - 10)

\* The digits of n >= 0 in a base, most significant first ("0" for 0).
RECURSIVE Digits(_, _)
Digits(n, base) ==
    IF n < base
    THEN <<_INT_CHARS(n)>>
    ELSE Digits(n \div base, base) \o <<_INT_CHARS(n % base)>>

\* str(n) and the format specs b, o, x of an int.
Format(n, base) ==
    IF n < 0 THEN <<Chr.Minus>> \o Digits(-n, base) ELSE Digits(n, base)

\* builtins.py:238-254, for a base of 2..36.  The test against
\* _BASE_HEXADECIMAL compares with 12 (builtins.py:30) and formats in 16.
IntParser_dumps(argument, base) ==
    IF argument < base THEN Format(argument, 10)
    ELSE IF base = 2 THEN Format(argument, 2)
    ELSE IF base = 8 THEN Format(argument, 8)
    ELSE IF base = 10 THEN Format(argument, 10)
    ELSE IF base = 12 THEN Format(argument, 16)
    ELSE Digits(argument, base)

\* The value of a digit character, -1 if it is none.
DigitValue(c) ==
    IF c >= Chr.Zero /\ c <= Chr.Zero + 9 THEN c - Chr.Zero
    ELSE IF c >= Chr.LowerA /\ c <= Chr.LowerA + 25 THEN c - Chr.LowerA + 10
    ELSE IF c >= Chr.A /\ c <= Chr.A + 25 THEN c - Chr.A + 10
    ELSE -1

RECURSIVE DigitsValue(_, _, _)
DigitsValue(s, base, acc) ==
    IF s = <<>> THEN acc
    ELSE DigitsValue(Tail(s), base, acc * base + DigitValue(Head(s)))

\* int(s, base) accepts an optional sign and digits of the base.
IsIntLiteral(s, base) ==
    LET body == IF Len(s) > 0 /\ s[1] = Chr.Minus THEN Tail(s) ELSE s
    IN  /\ Len(body) > 0
        /\ \A k \in 1..Len(body) :
              DigitValue(body[k]) >= 0 /\ DigitValue(body[k]) < base

\* builtins.py:204-236: [err, value]
IntParser_loads(argument, base, signed) ==
    IF ~IsIntLiteral(argument, base)
    THEN [err |-> Some("ValueError"), value |-> 0]
    ELSE LET result == IF argument[1] = Chr.Minus
                       THEN -DigitsValue(Tail(argument), base, 0)
                       ELSE DigitsValue(argument, base, 0)
         IN  IF ~signed /\ result < 0
             THEN [err |-> Some("ValueError"), value |-> 0]
             ELSE [err |-> None, value |-> result]

---------------------------------------------------------------------------
(* The custom id codec.                                                    *)

\* A decoder that leaves the count character on the name.
get_identifier_keep_count(name, custom_id) ==
    <<Head(Split(custom_id, sep(name))), Tail(Split(custom_id, sep(name)))>>

\* manager.py:314-325
get_identifier(name, custom_id) ==
    LET parts  == Split(custom_id, sep(name))
        ident  == Head(parts)
        params == Tail(parts)
    IN  IF count(name) /\ EndsWithAny(ident, _COUNT_CHARS)
        THEN <<SubSeq(ident, 1, Len(ident) - 1), params>>
        ELSE <<ident, params>>

\* A counter that never wraps: it leaves the range of _COUNT_CHARS after
\* the 25th call.
increment_no_wrap(counter) ==
    [char    |-> _minimise_count(counter),
     counter |-> counter + 1]

\* A counter that hands out its character without advancing.
increment_stuck(counter) ==
    [char    |-> _minimise_count(counter),
     counter |-> counter]

\* manager.py:327-334: [char, counter]
increment(counter) ==
    [char    |-> _minimise_count(counter),
     counter |-> IF counter + 1 > 24 THEN 0 ELSE counter + 1]

\* manager.py:341-346: the custom id of an identifier and dumped
\* parameters, and the counter it leaves: [custom_id, counter]
join_custom_id(name, identifier, dumped) ==
    IF count(name)
    THEN [custom_id |-> Join(sep(name),
                           <<identifier \o increment(_counter[name]).char>>
                              \o dumped),
          counter   |-> increment(_counter[name]).counter]
    ELSE [custom_id |-> Join(sep(name), <<identifier>> \o dumped),
          counter   |-> _counter[name]]

---------------------------------------------------------------------------
(* The component factory.                                                  *)

\* A dict lookup that treats a key outside the model's key universe as a
\* missing key.
Lookup(d, k) == IF k \in DOMAIN d THEN d[k] ELSE None

\* factory.py:39-57: the parsers of a component type's custom id fields,
\* in declaration order.  Every type of the model declares one field,
\* count: int = 0, parsed by the default IntParser (builtins.py:196-201).
parsers(t) == <<[field |-> "count", base |-> 36, signed |-> TRUE, default |-> 0]>>

\* factory.py:118-124: the dumped parameters, in field order.
dump_params(component) ==
    [k \in 1..Len(parsers(component.type)) |->
        IntParser_dumps(component.values[k], parsers(component.type)[k].base)]

\* factory.py:112-116: the fields in order; an empty string is skipped and
\* the field keeps its default.  [err, values]
RECURSIVE LoadFields(_, _)
LoadFields(ps, params) ==
    IF ps = <<>>
    THEN [err |-> None, values |-> <<>>]
    ELSE LET rest == LoadFields(Tail(ps), Tail(params))
             this == IF Head(params) = <<>>
                     THEN [err |-> None, value |-> Head(ps).default]
                     ELSE IntParser_loads(Head(params), Head(ps).base,
                                          Head(ps).signed)
         IN  IF this.err # None THEN [err |-> this.err, values |-> <<>>]
             ELSE IF rest.err # None THEN rest
             ELSE [err |-> None, values |-> <<this.value>> \o rest.values]

\* factory.py:100-116
load_params(t, params) ==
    IF Len(params) # Len(parsers(t))
    THEN [err |-> Some("ValueError"), values |-> <<>>]
    ELSE LoadFields(parsers(t), params)

\* factory.py:126-130: the parameters of build_component after self, and
\* the ones that have a default.
build_component_signature ==
    [names |-> <<"params", "component_params">>,
     defaults |-> {"component_params"}]

\* api/component.py:436-441: the parameters of build_component as the
\* api declares it, for a factory written to the api.
api_build_component_signature ==
    [names |-> <<"reference", "params", "component_params">>,
     defaults |-> {}]

\* The component types whose factory is not the ComponentFactory of
\* base.py:151-152 but one the application wrote to the api's signature
\* around the same load_params.
ApiFactoryTypes == {"t2"}

\* The signature of type.factory.build_component.
factory_signature(t) ==
    IF t \in ApiFactoryTypes THEN api_build_component_signature
    ELSE build_component_signature

\* Python's binding of a call's arguments to a signature: the parameter
\* each argument lands on, or the TypeError the call raises.
Bind(signature, positional, keywords) ==
    LET names == signature.names
        byPos == {names[k] : k \in 1..Len(names)} \cap
                 {names[k] : k \in 1..Len(positional)}
        bound == byPos \cup DOMAIN keywords
    IN  IF Len(positional) > Len(names)
        THEN [err |-> Some("TypeError"), args |-> <<>>]
        ELSE IF \E k \in DOMAIN keywords : k \in byPos \/ k \notin Range(names)
        THEN [err |-> Some("TypeError"), args |-> <<>>]
        ELSE IF \E n \in Range(names) : n \notin bound /\ n \notin signature.defaults
        THEN [err |-> Some("TypeError"), args |-> <<>>]
        ELSE [err  |-> None,
              args |-> [n \in bound |->
                          IF n \in DOMAIN keywords
                          THEN keywords[n]
                          ELSE positional[CHOOSE k \in 1..Len(positional) :
                                             names[k] = n]]]

\* factory.py:126-134, called as manager.py:424 calls it:
\* build_component(reference, params, component_params=component_params).
\* [err, component]
build_component(t, positional, keywords) ==
    LET call == Bind(factory_signature(t), positional, keywords)
        nothing == [type |-> t, values |-> <<>>]
    IN  IF call.err # None
        THEN [err |-> call.err, component |-> nothing]
        ELSE IF call.args["params"].tag # "params"
        THEN [err |-> Some("TypeError"), component |-> nothing]
        ELSE LET parsed == load_params(t, call.args["params"].value)
             IN  IF parsed.err # None
                 THEN [err |-> parsed.err, component |-> nothing]
                 ELSE [err |-> None,
                       component |-> [type |-> t, values |-> parsed.values]]

---------------------------------------------------------------------------
(* Custom ids of components, and components of custom ids.                 *)

\* manager.py:336-346: [err, custom_id, counter]
make_custom_id(name, component) ==
    LET known == _identifiers[name][ClassName(component.type)]
    IN  IF known = None
        THEN [err |-> Some("KeyError"), custom_id |-> <<>>,
              counter |-> _counter[name]]
        ELSE [err |-> None] @@
             join_custom_id(name, Get(known), dump_params(component))

\* base.py:174-199: ComponentBase.make_custom_id, [err, custom_id, counter]
component_make_custom_id(component) ==
    IF type_manager[component.type] = None
    THEN [err |-> Some("RuntimeError"), custom_id |-> <<>>, counter |-> 0]
    ELSE make_custom_id(Get(type_manager[component.type]), component)

\* The managers two walks of the tree have created, together.
MergeStore(x, y) ==
    [store    |-> x.store \cup y.store,
     children |-> [n \in Names |-> x.children[n] \cup y.children[n]]]

\* A membership test that finds every identifier.
is_unknown_never(name, identifier) == FALSE

\* manager.py:396: identifier not in self._components
is_unknown(name, identifier) == Lookup(_components[name], identifier) = None

\* manager.py:390-424: parse_raw_component as a function of the state:
\* kind is "none" (it returned None), "raise" or "component"; c, md and
\* st are the registrations and the store it leaves.
parse_raw_component(name, custom_id) ==
    LET decoded    == get_identifier(name, custom_id)
        identifier == decoded[1]
        params     == decoded[2]
        read       == Touch(Visited(name, _count),
                         Touch(Visited(name, _sep), CurrentStore))
        same       == [c |-> _components, md |-> _module_data]
        nothing    == [type |-> "-", values |-> <<>>]
    IN  IF custom_id = <<>>
        THEN [kind |-> "none", err |-> None, component |-> nothing,
              st |-> CurrentStore] @@ same
        ELSE IF is_unknown(name, identifier)
        THEN [kind |-> "none", err |-> None, component |-> nothing,
              st |-> read] @@ same
        ELSE IF Lookup(_module_data[name], identifier) = None
        THEN [kind |-> "raise", err |-> Some("KeyError"),
              component |-> nothing, st |-> read] @@ same
        ELSE LET t == Get(_components[name][identifier])
             IN  IF ~is_active(Get(_module_data[name][identifier]))
                 THEN LET gone == deregister_component(name, t)
                      IN  [kind |-> IF gone.err = None THEN "none" ELSE "raise",
                           err  |-> gone.err, component |-> nothing,
                           st   |-> MergeStore(gone.st, read),
                           c    |-> gone.c, md |-> gone.md]
                 ELSE LET built == build_component(t,
                                      <<[tag |-> "reference", value |-> <<>>],
                                        [tag |-> "params", value |-> params]>>,
                                      [component_params |->
                                         [tag |-> "component_params",
                                          value |-> <<>>]])
                      IN  [kind |-> IF built.err = None
                                    THEN "component" ELSE "raise",
                           err  |-> built.err,
                           component |-> built.component,
                           st |-> read] @@ same

---------------------------------------------------------------------------
(* The state after import, before any call.                                *)

\* manager.py:182-200, 897
InitTree ==
    /\ _MANAGER_STORE = {}
    /\ _children = [n \in Names |-> {}]
    /\ _components = [n \in Names |-> EmptyDict(Identifiers)]
    /\ _identifiers = [n \in Names |-> EmptyDict(ClassNames)]
    /\ _module_data = [n \in Names |-> EmptyDict(Identifiers)]
    /\ type_manager = [t \in Types |-> None]
    /\ sys_modules = [mod \in ModuleNames |-> Some(1)]

\* manager.py:195-198
InitConfig ==
    /\ _count = [n \in Names |-> None]
    /\ _sep = [n \in Names |-> None]
    /\ _counter = [n \in Names |-> 0]

\* manager.py:199-200
InitHooks ==
    /\ _callback_wrapper = [n \in Names |-> FALSE]
    /\ _exception_handler = [n \in Names |-> FALSE]

\* manager.py:25: no invocation is running and the context variable is unset.
InitInv ==
    /\ _COMPONENT_CTX = None
    /\ pc = "idle"
    /\ managers = <<>>
    /\ todo = <<>>
    /\ stack = <<>>
    /\ exc = None
    /\ log = <<>>
    /\ outcome = None

\* The call made last: its arguments, the exception it raised and, for a
\* call that hands back a component, that component.
CallWith(op, name, t, identifier, custom_id, err, result) ==
    [op |-> op, mgr |-> name, type |-> t, identifier |-> identifier,
     custom_id |-> custom_id, err |-> err, result |-> result]

Call(op, name, t, identifier, custom_id, err) ==
    CallWith(op, name, t, identifier, custom_id, err, None)

NoCall == Call("none", <<>>, "-", None, <<>>, None)

NoSample == [mgr |-> _ROOT, identifier |-> <<>>, params |-> <<>>]

---------------------------------------------------------------------------
(* The calls of the manager api.                                           *)

\* manager.py:917-954
GetManager(name) ==
    /\ pc = "idle"
    /\ LET st == get_manager(name, CurrentStore)
       IN  /\ _MANAGER_STORE' = st.store
           /\ _children' = st.children
    /\ last' = Call("get_manager", name, "-", None, <<>>, None)
    /\ UNCHANGED <<_components, _identifiers, _module_data, type_manager,
                   sys_modules, configVars, hookVars, invVars,
                   calls, sample>>

\* manager.py:501-542
RegisterComponentCall(name, t, identifier) ==
    /\ pc = "idle"
    /\ name \in _MANAGER_STORE
    /\ \E r \in {register_component(name, t, identifier)} :
          /\ _MANAGER_STORE' = r.st.store
           /\ _children' = r.st.children
           /\ _components' = r.c
           /\ _identifiers' = r.ids
           /\ _module_data' = r.md
           /\ type_manager' = r.tm
           /\ last' = Call("register", name, t, identifier, <<>>, r.err)
    /\ UNCHANGED <<sys_modules, configVars, hookVars, invVars>>

\* The same call, one of the MaxCalls calls of a run.
RegisterComponent(name, t, identifier) ==
    /\ calls < MaxCalls
    /\ calls' = calls + 1
    /\ RegisterComponentCall(name, t, identifier)
    /\ UNCHANGED sample

\* manager.py:544-566
DeregisterComponentCall(name, t) ==
    /\ pc = "idle"
    /\ name \in _MANAGER_STORE
    /\ \E r \in {deregister_component(name, t)} :
          /\ _MANAGER_STORE' = r.st.store
           /\ _children' = r.st.children
           /\ _components' = r.c
           /\ _module_data' = r.md
           /\ last' = Call("deregister", name, t, None, <<>>, r.err)
    /\ UNCHANGED <<_identifiers, type_manager, sys_modules,
                   configVars, hookVars, invVars>>

\* The same call, one of the MaxCalls calls of a run.
DeregisterComponent(name, t) ==
    /\ calls < MaxCalls
    /\ calls' = calls + 1
    /\ DeregisterComponentCall(name, t)
    /\ UNCHANGED sample

\* The reloads made so far: a module is first loaded with id 1.
Reloads ==
    LET n(mod) == IF sys_modules[mod] = None THEN 0 ELSE Get(sys_modules[mod]) - 1
    IN  n("m") + n("n")

\* A hot reload (the extension is unloaded and imported again): the
\* module name maps to a new module object.
ReloadModule(mod) ==
    /\ pc = "idle"
    /\ sys_modules[mod] # None
    /\ Reloads < MaxReloads
    /\ sys_modules' = [sys_modules EXCEPT ![mod] = Some(Get(@) + 1)]
    /\ last' = Call("reload", <<>>, "-", None, <<>>, None)
    /\ UNCHANGED <<_MANAGER_STORE, _children, _components, _identifiers,
                   _module_data, type_manager, configVars,
                   hookVars, invVars, calls, sample>>

\* The wrappers entered from the owning manager.
enter_order_owner_first(ms) == ms

\* manager.py:703: the order in which the wrappers are entered.
enter_order(ms) == Reverse(ms)

\* manager.py:696-701: invoke_component builds its list of managers and
\* opens the exit stack.
BeginInvocation(owner) ==
    /\ pc' = "enter"
    /\ managers' = _recurse_parents(owner)
    /\ todo' = enter_order(_recurse_parents(owner))
    /\ stack' = <<>>
    /\ exc' = None
    /\ log' = <<>>
    /\ outcome' = None

\* The custom ids of the interactions the model delivers: "", "A", "A|5",
\* "A<ETX>|5", "X|5", "B|5|5" and "Z|5".
CustomIdSamples ==
    LET five == Chr.Zero + 5
    IN  {<<>>, <<Chr.A>>, <<Chr.A, Chr.Pipe, five>>,
         <<Chr.A, Chr.ETX, Chr.Pipe, five>>, <<Chr.X, Chr.Pipe, five>>,
         <<Chr.B, Chr.Pipe, five, Chr.Pipe, five>>,
         <<Chr.A + 25, Chr.Pipe, five>>}

\* A reset that is skipped when invoke_component raised.
reset_context_unless_raised(token, current, result) ==
    IF result.result = "raised" THEN current ELSE token

\* manager.py:684-685: the finally clause resets the context variable to
\* the value it had before invoke set it, whatever invoke_component did.
reset_context(token, current, result) == token

\* manager.py:668-685: invoke, for a component interaction whose message
\* holds the component that was used (manager.py:348-358).
Invoke(name, custom_id) ==
    /\ pc = "idle"
    /\ name \in _MANAGER_STORE
    /\ \E r \in {parse_raw_component(name, custom_id)} :
          /\ _MANAGER_STORE' = r.st.store
           /\ _children' = r.st.children
           /\ _components' = r.c
           /\ _module_data' = r.md
           /\ last' = Call("invoke", name, "-", None, custom_id, r.err)
           /\ IF r.kind = "component" /\ type_manager[r.component.type] # None
              THEN /\ _COMPONENT_CTX' = Some(<<r.component, custom_id>>)
                   /\ BeginInvocation(Get(type_manager[r.component.type]))
              ELSE UNCHANGED invVars
    /\ UNCHANGED <<_identifiers, type_manager, sys_modules,
                   configVars, hookVars, calls, sample>>

---------------------------------------------------------------------------
(* The registry: managers are created, component types are registered and  *)
(* deregistered, modules are reloaded, interactions arrive.                *)

\* The managers of the model have been created: get_manager(),
\* get_manager("a.b"), get_manager("c").
TreeCreated ==
    LET st == Touch(<<_ROOT, <<"a", "b">>, <<"c">>>>,
                    [store |-> {}, children |-> [n \in Names |-> {}]])
    IN  /\ _MANAGER_STORE = st.store
        /\ _children = st.children
        /\ _components = [n \in Names |-> EmptyDict(Identifiers)]
        /\ _identifiers = [n \in Names |-> EmptyDict(ClassNames)]
        /\ _module_data = [n \in Names |-> EmptyDict(Identifiers)]
        /\ type_manager = [t \in Types |-> None]
        /\ sys_modules = [mod \in ModuleNames |-> Some(1)]
    
Init ==
    /\ TreeCreated
    /\ InitConfig
    /\ InitHooks
    /\ InitInv
    /\ last = NoCall
    /\ calls = 0
    /\ sample = NoSample

Next ==
    \/ \E name \in Names, t \in Types, identifier \in ExplicitIdentifiers :
          RegisterComponent(name, t, identifier)
    \/ \E name \in Names, t \in Types : DeregisterComponent(name, t)
    \/ \E mod \in ModuleNames : ReloadModule(mod)

Spec == Init /\ [][Next]_vars

---------------------------------------------------------------------------
(* Claims about the registry (checked under Spec).                         *)

\* x is n itself or an ancestor of n in the dotted namespace (the root is
\* an ancestor of every other manager).
IsSelfOrAncestor(x, n) ==
    \/ x = n
    \/ x = _ROOT
    \/ Len(x) < Len(n) /\ SubSeq(n, 1, Len(x)) = x

\* The step is a call of op: every call of the api writes last.
IsCall(op) == last'.op = op /\ calls' = calls + 1

\* The identifier a call registers under: the one passed, else the name
\* of the class.
RegisteredAs(call) ==
    IF call.identifier = None THEN ClassName(call.type) ELSE Get(call.identifier)

\* C4: after register_component(T) succeeds on manager M, T's identifier
\* maps to T in the components of M and of every ancestor of M up to the
\* root, and the components of every other manager (a sibling, a child)
\* are as they were for that identifier.
C4_RegistrationPropagates ==
    [][(IsCall("register") /\ last'.err = None) =>
        \A n \in Names :
            IF IsSelfOrAncestor(n, last'.mgr)
            THEN _components'[n][RegisteredAs(last')] = Some(last'.type)
            ELSE _components'[n][RegisteredAs(last')]
                    = _components[n][RegisteredAs(last')]]_vars

\* C4 witness: a type registered to "a.b" is in the components of "a.b",
\* "a" and the root, and not in those of "c".
C4_Witness ==
    /\ last.op = "register" /\ last.err = None /\ last.mgr = <<"a", "b">>
    /\ \A n \in {<<"a", "b">>, <<"a">>, _ROOT} :
          _components[n][RegisteredAs(last)] = Some(last.type)
    /\ _components[<<"c">>][RegisteredAs(last)] = None

\* C5 (as claimed, the part that holds no matter which manager an
\* identifier counts as registered to): whatever a manager's components
\* hold, the components of each of its ancestors, the root included,
\* hold under the same identifier and map to the same type.
C5_ComponentsAgreeWithRoot ==
    \A n \in Names, i \in Identifiers :
        _components[n][i] # None =>
            \A x \in Names :
                IsSelfOrAncestor(x, n) => _components[x][i] = _components[n][i]

\* C6: a register_component whose identifier is already in the root's
\* components (a) succeeds, and writes the new type on the target manager
\* and every ancestor, when the new module has the recorded module's name
\* and is another module object; (b) fails, and leaves the registrations
\* of every manager and the type's manager attribute as they were, when
\* the module name differs.
C6_ReloadReplacesConflictFails ==
    [][(IsCall("register") /\ _components[_ROOT][RegisteredAs(last')] # None) =>
        LET ident == RegisteredAs(last')
            old   == Get(_module_data[_ROOT][ident])
            new   == from_object(last'.type)
        IN  /\ (new.name = old.name /\ new.id # old.id) =>
                  /\ last'.err = None
                  /\ \A n \in Names : IsSelfOrAncestor(n, last'.mgr) =>
                        /\ _components'[n][ident] = Some(last'.type)
                        /\ _module_data'[n][ident] = Some(new)
            /\ new.name # old.name =>
                  /\ last'.err # None
                  /\ UNCHANGED <<_components, _identifiers, _module_data,
                                 type_manager>>]_vars

\* C6 witness: after a reload of m, a second class took over the
\* identifier at the root; the class it replaced is still where its own
\* registration put it, outside the new chain.
C6_Witness ==
    /\ last.op = "register" /\ last.err = None
    /\ Reloads = 1
    /\ _components[_ROOT][RegisteredAs(last)] = Some(last.type)
    /\ \E n \in Names, t \in Types :
          /\ t # last.type
          /\ ClassModule(t) = ClassModule(last.type)
          /\ _components[n][RegisteredAs(last)] = Some(t)

\* C7 (as claimed): deregister_component(T), called on the manager M that
\* T is registered to or on an ancestor of M, for T registered under
\* identifier i, removes i from M and from every ancestor of M, and
\* removes nothing else.
C7_DeregisterRemovesIdentifier ==
    [][IsCall("deregister") =>
        \A m \in Names, i \in Identifiers :
            (/\ type_manager[last'.type] = Some(m)
             /\ _components[m][i] = Some(last'.type)
             /\ IsSelfOrAncestor(last'.mgr, m)) =>
                \A n \in Names, j \in Identifiers :
                    IF IsSelfOrAncestor(n, m) /\ j = i
                    THEN _components'[n][j] = None
                    ELSE _components'[n][j] = _components[n][j]]_vars

---------------------------------------------------------------------------
(* The invocation pipeline: callback wrappers, the component callback and  *)
(* the exception handlers of one invoke_component call. What the user's    *)
(* wrappers, callback and handlers do is an input of each step.            *)

\* The classes of the exceptions user code raises: `except Exception`
\* (manager.py:711) catches the first and lets the second through.
ExcKinds == {"Exception", "BaseException"}

\* An exception object: where it was raised, by whose hook, and its class.
Raised(site, name, kind) == [site |-> site, mgr |-> name, kind |-> kind]

Event(ev, name, result, kind) ==
    [ev |-> ev, mgr |-> name, result |-> result, kind |-> kind]

Returned == [result |-> "returned", exception |-> None]

Propagated(e) == [result |-> "raised", exception |-> Some(e)]

\* manager.py:622: the manager's wrapper is set.
AsCallbackWrapper(name) ==
    /\ pc = "idle"
    /\ name \in _MANAGER_STORE
    /\ ~_callback_wrapper[name]
    /\ _callback_wrapper' = [_callback_wrapper EXCEPT ![name] = TRUE]
    /\ UNCHANGED <<treeVars, configVars, _exception_handler, invVars,
                   last, calls, sample>>

\* manager.py:665: the manager's exception handler is set.
AsExceptionHandler(name) ==
    /\ pc = "idle"
    /\ name \in _MANAGER_STORE
    /\ ~_exception_handler[name]
    /\ _exception_handler' = [_exception_handler EXCEPT ![name] = TRUE]
    /\ UNCHANGED <<treeVars, configVars, _callback_wrapper, invVars,
                   last, calls, sample>>

\* manager.py:688-701: invoke_component is called on the manager the
\* component is registered to.
InvokeComponent(owner) ==
    /\ pc = "idle"
    /\ owner \in _MANAGER_STORE
    /\ BeginInvocation(owner)
    /\ UNCHANGED <<treeVars, configVars, hookVars, _COMPONENT_CTX,
                   last, calls, sample>>

\* manager.py:703-704, 732-733: the next manager has no wrapper.
NoWrapper ==
    /\ pc = "enter"
    /\ todo # <<>>
    /\ ~_callback_wrapper[Head(todo)]
    /\ todo' = Tail(todo)
    /\ UNCHANGED <<treeVars, configVars, hookVars, _COMPONENT_CTX, pc,
                   managers, stack, exc, log, outcome, last, calls, sample>>

\* manager.py:703-706: the next manager's wrapper is entered; it runs to
\* its yield and is pushed on the exit stack, or it raises.
EnterWrapper(result, kind) ==
    /\ pc = "enter"
    /\ todo # <<>>
    /\ _callback_wrapper[Head(todo)]
    /\ IF result = "yield"
       THEN /\ stack' = Append(stack, Head(todo))
            /\ todo' = Tail(todo)
            /\ log' = Append(log, Event("enter", Head(todo), "yield", "-"))
            /\ UNCHANGED <<pc, exc>>
       ELSE /\ exc' = Some(Raised("setup", Head(todo), kind))
            /\ pc' = "exit"
            /\ log' = Append(log, Event("enter", Head(todo), "raise", kind))
            /\ UNCHANGED <<stack, todo>>
    /\ UNCHANGED <<treeVars, configVars, hookVars, _COMPONENT_CTX,
                   managers, outcome, last, calls, sample>>

\* manager.py:708-709: every manager was visited; the callback runs.
RunCallback(result, kind) ==
    /\ pc = "enter"
    /\ todo = <<>>
    /\ pc' = "exit"
    /\ exc' = IF result = "return"
              THEN None
              ELSE Some(Raised("callback", Head(managers), kind))
    /\ log' = Append(log, Event("callback", Head(managers), result,
                                IF result = "return" THEN "-" ELSE kind))
    /\ UNCHANGED <<treeVars, configVars, hookVars, _COMPONENT_CTX,
                   managers, todo, stack, outcome, last, calls, sample>>

\* The exit stack with the first wrappers exited first.
exit_index_fifo(stk) == 1

\* manager.py:700: contextlib.AsyncExitStack pops the callback it
\* registered last.
exit_index(stk) == Len(stk)

Remove(s, i) == SubSeq(s, 1, i - 1) \o SubSeq(s, i + 1, Len(s))

\* What a wrapper can do when it is resumed at its yield: with no
\* exception it returns or raises; with the pending exception thrown in
\* it lets it through, swallows it or raises another.
ExitResults(pending) ==
    IF pending = None THEN {"return", "raise"}
    ELSE {"reraise", "swallow", "raise"}

\* An exit stack that keeps the pending exception when a wrapper has
\* swallowed it.
pending_after_exit_kept(result, pending, raised) ==
    IF result = "raise" THEN Some(raised) ELSE pending

\* manager.py:700: the exception that is pending once a wrapper has been
\* exited: the one the wrapper raised, none when it swallowed the pending
\* one, and the pending one otherwise.
pending_after_exit(result, pending, raised) ==
    CASE result = "raise" -> Some(raised)
      [] result = "swallow" -> None
      [] OTHER -> pending

\* manager.py:700-709: the `async with` block is left and the exit stack
\* exits one wrapper; a wrapper that raises replaces the pending
\* exception, one that swallows it clears it, and the unwinding goes on.
ExitWrapper(result, kind) ==
    /\ pc = "exit"
    /\ stack # <<>>
    /\ result \in ExitResults(exc)
    /\ LET i == exit_index(stack)
       IN  /\ stack' = Remove(stack, i)
           /\ log' = Append(log, Event("exit", stack[i], result,
                                IF result = "raise" THEN kind ELSE "-"))
           /\ exc' = pending_after_exit(result, exc,
                                         Raised("teardown", stack[i], kind))
    /\ UNCHANGED <<treeVars, configVars, hookVars, _COMPONENT_CTX, pc,
                   managers, todo, outcome, last, calls, sample>>

\* The handlers visited from the root.
handle_order_root_first(ms) == Reverse(ms)

\* manager.py:716: the order in which the handlers are tried.
handle_order(ms) == ms

\* manager.py:709-716: the exit stack is empty. Without a pending
\* exception invoke_component returns; an Exception is caught and goes to
\* the handlers; any other exception leaves invoke_component.
LeaveStack ==
    /\ pc = "exit"
    /\ stack = <<>>
    /\ IF exc = None
       THEN /\ pc' = "done"
            /\ outcome' = Some(Returned)
            /\ UNCHANGED todo
       ELSE IF Get(exc).kind = "Exception"
       THEN /\ pc' = "handle"
            /\ todo' = handle_order(managers)
            /\ UNCHANGED outcome
       ELSE /\ pc' = "done"
            /\ outcome' = Some(Propagated(Get(exc)))
            /\ UNCHANGED todo
    /\ UNCHANGED <<treeVars, configVars, hookVars, _COMPONENT_CTX,
                   managers, stack, exc, log, last, calls, sample>>

\* manager.py:742-743: the manager has no handler; try_handle_error
\* returns False.
NoHandler ==
    /\ pc = "handle"
    /\ todo # <<>>
    /\ ~_exception_handler[Head(todo)]
    /\ todo' = Tail(todo)
    /\ UNCHANGED <<treeVars, configVars, hookVars, _COMPONENT_CTX, pc,
                   managers, stack, exc, log, outcome, last, calls, sample>>

\* The values a handler returns, and "raise".
HandlerResults == {"True", "False", "None", "raise"}

\* manager.py:744: `await handler(...) or False`.
try_handle_error(result) == IF result = "None" THEN "False" ELSE result

\* manager.py:716-718, 744: the manager's handler is awaited; True ends
\* the invocation, False or None goes on to the next manager, and an
\* exception of the handler leaves invoke_component.
HandleError(result, kind) ==
    /\ pc = "handle"
    /\ todo # <<>>
    /\ _exception_handler[Head(todo)]
    /\ log' = Append(log, Event("handle", Head(todo), result,
                                IF result = "raise" THEN kind ELSE "-"))
    /\ IF result = "raise"
       THEN /\ pc' = "done"
            /\ outcome' = Some(Propagated(Raised("handler", Head(todo), kind)))
            /\ UNCHANGED todo
       ELSE IF try_handle_error(result) = "True"
       THEN /\ pc' = "done"
            /\ outcome' = Some(Returned)
            /\ UNCHANGED todo
       ELSE /\ todo' = Tail(todo)
            /\ UNCHANGED <<pc, outcome>>
    /\ UNCHANGED <<treeVars, configVars, hookVars, _COMPONENT_CTX,
                   managers, stack, exc, last, calls, sample>>

\* manager.py:720-725: no handler returned True; the caught exception is
\* raised again.
Unhandled ==
    /\ pc = "handle"
    /\ todo = <<>>
    /\ pc' = "done"
    /\ outcome' = Some(Propagated(Get(exc)))
    /\ UNCHANGED <<treeVars, configVars, hookVars, _COMPONENT_CTX,
                   managers, todo, stack, exc, log, last, calls, sample>>

\* The caller of invoke_component has its result; the next call can start.
Finish ==
    /\ pc = "done"
    /\ pc' = "idle"
    /\ managers' = <<>>
    /\ todo' = <<>>
    /\ stack' = <<>>
    /\ exc' = None
    /\ log' = <<>>
    /\ outcome' = None
    /\ UNCHANGED <<treeVars, configVars, hookVars, _COMPONENT_CTX,
                   last, calls, sample>>

InitInvoke ==
    /\ TreeCreated
    /\ InitConfig
    /\ InitHooks
    /\ InitInv
    /\ last = NoCall
    /\ calls = 0
    /\ sample = NoSample

NextInvoke ==
    \/ \E name \in Names : AsCallbackWrapper(name)
    \/ \E name \in Names : AsExceptionHandler(name)
    \/ \E owner \in Names : InvokeComponent(owner)
    \/ NoWrapper
    \/ \E kind \in ExcKinds : EnterWrapper("raise", kind)
    \/ EnterWrapper("yield", "-")
    \/ \E kind \in ExcKinds : RunCallback("raise", kind)
    \/ RunCallback("return", "-")
    \/ \E result \in {"return", "reraise", "swallow"} : ExitWrapper(result, "-")
    \/ \E kind \in ExcKinds : ExitWrapper("raise", kind)
    \/ LeaveStack
    \/ NoHandler
    \/ \E result \in HandlerResults \ {"raise"} : HandleError(result, "-")
    \/ \E kind \in ExcKinds : HandleError("raise", kind)
    \/ Unhandled
    \/ Finish

SpecInvoke == InitInvoke /\ [][NextInvoke]_vars

---------------------------------------------------------------------------
(* Claims about the invocation pipeline (checked under SpecInvoke).        *)

\* The distance of a manager from the root.
Depth(n) == IF n = _ROOT THEN 0 ELSE Len(n)

\* The manager the running invocation's component is registered to.
Owner == Head(managers)

OnChain(n) == IsSelfOrAncestor(n, Owner)

IsEnter(e) == e.ev = "enter"
IsYield(e) == e.ev = "enter" /\ e.result = "yield"
IsExit(e) == e.ev = "exit"
IsHandle(e) == e.ev = "handle"

Enters == SelectSeq(log, IsEnter)
Yields == SelectSeq(log, IsYield)
Exits == SelectSeq(log, IsExit)
Handles == SelectSeq(log, IsHandle)

\* C1: in every invocation of a component of manager M the wrappers of
\* M's chain are entered from the root down to M, one after the other and
\* none of them left out, managers without a wrapper being skipped; the
\* callback starts only after each of these wrappers has yielded; once a
\* wrapper raised before its yield the callback is not run.
C1_WrappersEnteredRootFirst ==
    pc # "idle" =>
        /\ \A i \in 1..Len(Enters) :
              /\ OnChain(Enters[i].mgr) /\ _callback_wrapper[Enters[i].mgr]
              /\ \A j \in 1..Len(Enters) :
                    i < j => Depth(Enters[i].mgr) < Depth(Enters[j].mgr)
              /\ \A n \in Names :
                    (/\ OnChain(n) /\ _callback_wrapper[n]
                     /\ Depth(n) < Depth(Enters[i].mgr)) =>
                        \E j \in 1..(i - 1) : Enters[j].mgr = n
        /\ \A k \in 1..Len(log) : log[k].ev = "callback" =>
              /\ \A j \in 1..(k - 1) : IsYield(log[j])
              /\ \A n \in Names : (OnChain(n) /\ _callback_wrapper[n]) =>
                    \E j \in 1..(k - 1) : log[j].mgr = n
        /\ (\E j \in 1..Len(log) : IsEnter(log[j]) /\ log[j].result = "raise") =>
              \A k \in 1..Len(log) : log[k].ev # "callback"

\* C1 witness: a component of "a.b" was invoked with wrappers on the root
\* and on "a.b" and none on "a"; the root's wrapper yielded, then "a.b"'s,
\* then the callback ran.
C1_Witness ==
    /\ pc = "done"
    /\ Owner = <<"a", "b">>
    /\ _callback_wrapper[_ROOT] /\ ~_callback_wrapper[<<"a">>]
    /\ Len(log) >= 3
    /\ log[1] = Event("enter", _ROOT, "yield", "-")
    /\ log[2] = Event("enter", <<"a", "b">>, "yield", "-")
    /\ log[3].ev = "callback"

\* The walk of the handlers: only handlers of the chain, from the owning
\* manager upwards, none left out, and past a handler only when it
\* returned False or None.
HandlerWalk ==
    \A i \in 1..Len(Handles) :
        /\ OnChain(Handles[i].mgr) /\ _exception_handler[Handles[i].mgr]
        /\ \A j \in 1..Len(Handles) :
              i < j => Depth(Handles[i].mgr) > Depth(Handles[j].mgr)
        /\ \A n \in Names :
              (/\ OnChain(n) /\ _exception_handler[n]
               /\ Depth(n) > Depth(Handles[i].mgr)) =>
                  \E j \in 1..(i - 1) : Handles[j].mgr = n
        /\ i < Len(Handles) => Handles[i].result \in {"False", "None"}

EveryHandlerTried ==
    \A n \in Names : (OnChain(n) /\ _exception_handler[n]) =>
        \E i \in 1..Len(Handles) : Handles[i].mgr = n

SomeHandlerReturnedTrue ==
    \E i \in 1..Len(Handles) : Handles[i].result = "True"

IsRaise(e) == e.ev \in {"enter", "callback", "exit"} /\ e.result = "raise"
IsRaiseOrSwallow(e) == IsRaise(e) \/ (e.ev = "exit" /\ e.result = "swallow")

\* The exception object a raise event of the log stands for.
ExceptionOf(e) ==
    Raised(CASE e.ev = "enter" -> "setup"
             [] e.ev = "callback" -> "callback"
             [] e.ev = "exit" -> "teardown"
             [] OTHER -> "handler",
           e.mgr, e.kind)

IsRaiseOfException(e) == IsRaise(e) /\ e.kind = "Exception"

\* The Exception the callback or a wrapper raised first.
Original == ExceptionOf(Head(SelectSeq(log, IsRaiseOfException)))

\* The exception that leaves the wrapper stack: the one raised last by
\* the callback or a wrapper, unless a wrapper exited after it swallowed
\* it.
Escaped ==
    LET evs == SelectSeq(log, IsRaiseOrSwallow)
    IN  IF evs = <<>> \/ evs[Len(evs)].result = "swallow"
        THEN None
        ELSE Some(ExceptionOf(evs[Len(evs)]))

\* C2 (as claimed): once the callback or a wrapper raised an Exception,
\* the handlers are walked from the owning manager up to the root; when
\* one returned True the invocation returns; when none did, every handler
\* was tried and that original exception propagates.
C2_HandlersForAnyRaisedException ==
    (pc = "done" /\ SelectSeq(log, IsRaiseOfException) # <<>>) =>
        /\ HandlerWalk
        /\ SomeHandlerReturnedTrue => outcome = Some(Returned)
        /\ ~SomeHandlerReturnedTrue =>
              /\ EveryHandlerTried
              /\ outcome = Some(Propagated(Original))

\* C2 (amended): the handlers are walked for the Exception that leaves
\* the wrapper stack, and for nothing else. They are tried from the owning
\* manager up to the root; the first that returns True ends the walk and
\* the invocation returns; False, None or no handler passes the exception
\* on; a handler that raises ends the walk and its exception propagates;
\* when every handler was tried and none returned True the escaped
\* exception itself propagates.
C2_HandlersForEscapedException ==
    pc = "done" =>
        /\ HandlerWalk
        /\ IF Escaped = None
           THEN Handles = <<>> /\ outcome = Some(Returned)
           ELSE IF Get(Escaped).kind # "Exception"
           THEN Handles = <<>> /\ outcome = Some(Propagated(Get(Escaped)))
           ELSE LET final == Handles[Len(Handles)]
                IN  IF Handles # <<>> /\ final.result = "True"
                    THEN outcome = Some(Returned)
                    ELSE IF Handles # <<>> /\ final.result = "raise"
                    THEN outcome = Some(Propagated(ExceptionOf(final)))
                    ELSE /\ EveryHandlerTried
                         /\ outcome = Some(Propagated(Get(Escaped)))

\* C2 witness: the callback of a component of "a.b" raised an Exception
\* that left the wrapper stack; the handler of "a.b" passed it on and the
\* root's handler returned True.
C2_Witness ==
    /\ pc = "done"
    /\ Owner = <<"a", "b">>
    /\ Escaped = Some(Raised("callback", <<"a", "b">>, "Exception"))
    /\ Len(Handles) = 2
    /\ Handles[1].mgr = <<"a", "b">> /\ Handles[1].result = "None"
    /\ Handles[2].mgr = _ROOT /\ Handles[2].result = "True"
    /\ outcome = Some(Returned)

\* C3: every wrapper that was entered is exited exactly once, in the
\* reverse of the order of entry, however the invocation goes: while the
\* stack unwinds the exits are the entries read backwards, and when the
\* stack is left every entered wrapper has been exited.
C3_WrappersExitedInReverse ==
    pc # "idle" =>
        /\ Len(Exits) <= Len(Yields)
        /\ \A i \in 1..Len(Exits) :
              /\ Exits[i].mgr = Yields[Len(Yields) + 1 - i].mgr
              /\ \A j \in 1..Len(Exits) :
                    Exits[i].mgr = Exits[j].mgr => i = j
        /\ pc \in {"handle", "done"} => Len(Exits) = Len(Yields)

\* C3 witness: three wrappers were entered, the innermost raised in its
\* teardown, and the two outer ones were exited after it.
C3_Witness ==
    /\ pc = "done"
    /\ Len(Yields) = 3
    /\ Len(Exits) = 3
    /\ Exits[1].mgr = <<"a", "b">> /\ Exits[1].result = "raise"
    /\ Exits[2].mgr = <<"a">>
    /\ Exits[3].mgr = _ROOT

---------------------------------------------------------------------------
(* Dispatch: component types are registered, custom ids are made from      *)
(* components, and custom ids that arrive are parsed and invoked.          *)

\* The values of the custom id field of the components the model builds.
FieldValues == {5, 10}

\* The component types of the dispatch runs: one of module m, one of n.
DispatchTypes == {"t1", "t3"}

Components ==
    {[type |-> t, values |-> <<v>>] : t \in DispatchTypes, v \in FieldValues}

\* hikari.UNDEFINED, the default of both arguments of config.
UNDEFINED == "UNDEFINED"

\* manager.py:297-307
Config(name, new_count, new_sep) ==
    /\ pc = "idle"
    /\ calls < MaxCalls
    /\ calls' = calls + 1
    /\ name \in _MANAGER_STORE
    /\ _count' = IF new_count = UNDEFINED THEN _count
                 ELSE [_count EXCEPT ![name] = new_count]
    /\ _sep' = IF new_sep = UNDEFINED THEN _sep
               ELSE [_sep EXCEPT ![name] = new_sep]
    /\ last' = Call("config", name, "-", None, <<>>, None)
    /\ UNCHANGED <<treeVars, _counter, hookVars, invVars, sample>>

\* manager.py:336-346: make_custom_id of a manager, for a component the
\* caller built.
MakeCustomIdCall(name, component) ==
    /\ pc = "idle"
    /\ name \in _MANAGER_STORE
    /\ \E r \in {make_custom_id(name, component)},
          read \in {Touch(Visited(name, _count),
                      Touch(Visited(name, _sep), CurrentStore))} :
           /\ _counter' = [_counter EXCEPT ![name] = r.counter]
           /\ _MANAGER_STORE' = IF r.err = None THEN read.store
                                ELSE _MANAGER_STORE
           /\ _children' = IF r.err = None THEN read.children ELSE _children
           /\ last' = CallWith("make_custom_id", name, component.type, None,
                               r.custom_id, r.err, Some(component))
    /\ UNCHANGED <<_components, _identifiers, _module_data, type_manager,
                   sys_modules, _count, _sep, hookVars, invVars>>

\* The same call, one of the MaxCalls calls of a run.
MakeCustomId(name, component) ==
    /\ calls < MaxCalls
    /\ calls' = calls + 1
    /\ MakeCustomIdCall(name, component)
    /\ UNCHANGED sample

\* The custom id the last call of make_custom_id returned, if that is
\* what the last call was.
MadeCustomIds ==
    IF last.op = "make_custom_id" /\ last.err = None
    THEN {last.custom_id}
    ELSE {}

\* manager.py:360-424: parse_raw_component, for a raw component with the
\* given custom id.
ParseRawComponent(name, custom_id) ==
    /\ pc = "idle"
    /\ name \in _MANAGER_STORE
    /\ \E r \in {parse_raw_component(name, custom_id)} :
          /\ _MANAGER_STORE' = r.st.store
           /\ _children' = r.st.children
           /\ _components' = r.c
           /\ _module_data' = r.md
           /\ last' = CallWith("parse", name, "-", None, custom_id, r.err,
                               IF r.kind = "component"
                               THEN Some(r.component) ELSE None)
    /\ UNCHANGED <<_identifiers, type_manager, sys_modules,
                   configVars, hookVars, invVars, calls, sample>>

\* The managers the dispatch runs register to and call.
DispatchManagers == {_ROOT, <<"a", "b">>}

InitDispatch ==
    /\ TreeCreated
    /\ InitConfig
    /\ InitHooks
    /\ InitInv
    /\ last = NoCall
    /\ calls = 0
    /\ sample = NoSample

NextDispatch ==
    \/ \E name \in DispatchManagers, t \in DispatchTypes,
          identifier \in ExplicitIdentifiers :
            RegisterComponent(name, t, identifier)
    \/ ReloadModule("m")
    \/ Config(_ROOT, Some(FALSE), UNDEFINED)
    \/ \E name \in DispatchManagers, component \in Components :
          MakeCustomId(name, component)
    \/ \E name \in DispatchManagers, custom_id \in MadeCustomIds :
          ParseRawComponent(name, custom_id)
    \/ \E name \in DispatchManagers, custom_id \in CustomIdSamples :
          Invoke(name, custom_id)

SpecDispatch == InitDispatch /\ [][NextDispatch]_vars

---------------------------------------------------------------------------
(* Claims about dispatch (checked under SpecDispatch).                     *)

\* C8 (as claimed): parse_raw_component, called on a manager with the
\* custom id that manager's make_custom_id has just returned for a
\* component, returns without raising a component of the same type with
\* the same custom id fields.
C8_CustomIdRoundTrip ==
    [][(/\ last.op = "make_custom_id" /\ last.err = None
        /\ last'.op = "parse"
        /\ last'.mgr = last.mgr
        /\ last'.custom_id = last.custom_id) =>
            /\ last'.err = None
            /\ last'.result = last.result]_vars

\* C10: invoke, for a custom id whose decoded identifier is not in the
\* components of the manager it is called on, returns without raising,
\* starts no invocation (no wrapper, callback or handler runs) and leaves
\* the registrations, the counters, the configuration and the context
\* variable as they were.
C10_UnknownIdentifierIgnored ==
    [][(/\ last'.op = "invoke"
        /\ Lookup(_components[last'.mgr],
                  get_identifier(last'.mgr, last'.custom_id)[1]) = None) =>
            /\ last'.err = None
            /\ pc' = "idle" /\ log' = <<>>
            /\ UNCHANGED <<_components, _identifiers, _module_data,
                           type_manager, configVars, hookVars,
                           _COMPONENT_CTX>>]_vars

\* C10 witness: "a.b" holds a component type under "A" and has made a
\* custom id (its counter moved), and invoke was called on it with "Z|5".
C10_Witness ==
    /\ last.op = "invoke"
    /\ last.mgr = <<"a", "b">>
    /\ last.custom_id = <<Chr.A + 25, Chr.Pipe, Chr.Zero + 5>>
    /\ last.err = None
    /\ _components[<<"a", "b">>][<<Chr.A>>] # None
    /\ _counter[<<"a", "b">>] = 1

---------------------------------------------------------------------------
(* The custom id codec on its own: a custom id is joined from an           *)
(* identifier and parameter strings and split again by the same manager.   *)

\* The identifiers of the codec runs: "A", "A|B" and "A<ETX>" (it ends
\* with a count character).
CodecIdentifiers ==
    {<<Chr.A>>, <<Chr.A, Chr.Pipe, Chr.B>>, <<Chr.A, Chr.ETX>>}

\* The parameter strings of the codec runs: "5", "", "B|" and ":".
ParamStrings ==
    {<<Chr.Zero + 5>>, <<>>, <<Chr.B, Chr.Pipe>>, <<Chr.Colon>>}

\* What config(sep=...) has set on the root: nothing (the default "|"
\* applies), ":", "||" or the count character "<ETX>".
CodecSeps ==
    {None, Some(<<Chr.Colon>>), Some(<<Chr.Pipe, Chr.Pipe>>), Some(<<Chr.ETX>>)}

\* What config(count=...) has set on the root.
CodecCounts == {None, Some(FALSE)}

CodecManagers == {_ROOT, <<"a", "b">>}

\* manager.py:341-346: the identifier, with the count character when
\* count is on, is joined with the parameter strings.
Encode ==
    /\ pc = "idle"
    /\ last.op = "none"
    /\ \E r \in {join_custom_id(sample.mgr, sample.identifier, sample.params)} :
          /\ _counter' = [_counter EXCEPT ![sample.mgr] = r.counter]
          /\ last' = Call("encode", sample.mgr, "-", None, r.custom_id, None)
    /\ UNCHANGED <<treeVars, _count, _sep, hookVars, invVars, calls, sample>>

\* manager.py:314-325: get_identifier on the custom id just made.
Decode ==
    /\ pc = "idle"
    /\ last.op = "encode"
    /\ \E d \in {get_identifier(sample.mgr, last.custom_id)} :
          last' = CallWith("decode", sample.mgr, "-", None, last.custom_id,
                           None, Some(d))
    /\ UNCHANGED <<treeVars, configVars, hookVars, invVars, calls, sample>>

\* The managers exist, the root has been configured, the manager under
\* test has made some custom ids (its counter is anywhere in 0..24), and
\* an identifier and parameter strings have been chosen.
InitCodec ==
    /\ TreeCreated
    /\ InitHooks
    /\ InitInv
    /\ last = NoCall
    /\ calls = 0
    /\ \E s \in CodecSeps : _sep = [n \in Names |-> IF n = _ROOT THEN s ELSE None]
    /\ \E c \in CodecCounts :
          _count = [n \in Names |-> IF n = _ROOT THEN c ELSE None]
    /\ sample \in [mgr : CodecManagers, identifier : CodecIdentifiers,
                   params : SeqsOf(ParamStrings, 0, MaxParams)]
    /\ \E k \in 0..24 :
          _counter = [n \in Names |-> IF n = sample.mgr THEN k ELSE 0]

NextCodec == Encode \/ Decode

SpecCodec == InitCodec /\ [][NextCodec]_vars

\* The count character a custom id carries, if count is on.
CountCharOf(custom_id) ==
    IF count(sample.mgr)
    THEN <<custom_id[Len(sample.identifier) + 1]>>
    ELSE <<>>

\* C9 (as claimed): for any identifier and parameter strings none of
\* which contains the manager's separator, get_identifier of the joined
\* custom id returns the identifier and the parameter strings, whatever
\* the counter was.
C9_DecodeInvertsEncode ==
    (/\ last.op = "decode"
     /\ \A k \in 1..Len(sample.params) :
           ~Contains(sample.params[k], sep(sample.mgr))) =>
        last.result = Some(<<sample.identifier, sample.params>>)

\* C9 (amended): the same, for a separator of one character that occurs
\* neither in the identifier nor in a parameter string and, when count is
\* on, is not one of the count characters.
C9_DecodeInvertsEncodeOneCharSep ==
    (/\ last.op = "decode"
     /\ Len(sep(sample.mgr)) = 1
     /\ ~Contains(sample.identifier, sep(sample.mgr))
     /\ count(sample.mgr) => sep(sample.mgr) \notin _COUNT_CHARS
     /\ \A k \in 1..Len(sample.params) :
           ~Contains(sample.params[k], sep(sample.mgr))) =>
        last.result = Some(<<sample.identifier, sample.params>>)

\* C9 witness: with count on and the counter at 24, "a.b" (separator ":"
\* from the root) joined "A|B", the count character and the parameters
\* "5" and "", and split the result again.
C9_Witness ==
    /\ last.op = "decode"
    /\ sample.mgr = <<"a", "b">>
    /\ sample.identifier = <<Chr.A, Chr.Pipe, Chr.B>>
    /\ sample.params = <<<<Chr.Zero + 5>>, <<>>>>
    /\ sep(sample.mgr) = <<Chr.Colon>>
    /\ CountCharOf(last.custom_id) = <<24>>
    /\ _counter[sample.mgr] = 0
    /\ last.result = Some(<<sample.identifier, sample.params>>)

---------------------------------------------------------------------------
(* The counter of make_custom_id over long runs of calls.                  *)

\* The longest distance between two calls that is still counted; the
\* counter has 25 values.
MaxApart == 25

CounterComponents == {c \in Components : c.type = "t1"}

\* The identifier make_custom_id reads for a type on a manager
\* (manager.py:338), None when the class name is not registered there.
known_identifier(name, t) == _identifiers[name][ClassName(t)]

\* An earlier successful call of make_custom_id with count enabled, kept
\* beside the state: its manager, component, identifier and custom id,
\* and the number of make_custom_id calls the manager has had since.
Earlier(name, component, identifier, custom_id) ==
    [mgr |-> name, component |-> component, identifier |-> identifier,
     custom_id |-> custom_id, since |-> 0]

\* manager.py:336-346: one more call of make_custom_id in a run of any
\* length; the first call kept in sample is chosen freely.
MakeCustomIdAgain(name, component) ==
    /\ MakeCustomIdCall(name, component)
    /\ UNCHANGED calls
    /\ \/ /\ sample = None
          /\ sample' = None
       \/ /\ sample = None
          /\ last'.err = None
          /\ count(name)
          /\ sample' = Some(Earlier(name, component,
                                    Get(known_identifier(name, component.type)),
                                    last'.custom_id))
       \/ /\ sample # None
          /\ sample' = IF Get(sample).mgr = name
                          /\ Get(sample).since < MaxApart
                       THEN Some([Get(sample) EXCEPT !.since = @ + 1])
                       ELSE sample

InitCounter ==
    /\ TreeCreated
    /\ InitConfig
    /\ InitHooks
    /\ InitInv
    /\ last = NoCall
    /\ calls = 0
    /\ sample = None

NextCounter ==
    \/ \E identifier \in ExplicitIdentifiers :
          RegisterComponent(<<"a", "b">>, "t1", identifier)
    \/ Config(_ROOT, Some(FALSE), UNDEFINED)
    \/ \E component \in CounterComponents : MakeCustomId(_ROOT, component)
    \/ \E component \in CounterComponents :
          MakeCustomIdAgain(<<"a", "b">>, component)

SpecCounter == InitCounter /\ [][NextCounter]_vars

\* The last call was a successful make_custom_id with count enabled, of
\* the manager, component and identifier of the earlier call kept in
\* sample, between 1 and 24 calls later.
MadeAgain ==
    /\ sample # None
    /\ last.op = "make_custom_id"
    /\ last.err = None
    /\ last.mgr = Get(sample).mgr
    /\ last.result = Some(Get(sample).component)
    /\ known_identifier(last.mgr, last.type) = Some(Get(sample).identifier)
    /\ count(last.mgr)
    /\ Get(sample).since \in 1..24

\* C11: with count enabled, two custom ids one manager made fewer than 25
\* make_custom_id calls apart for the same component type, registered
\* identifier and parameter values are different strings, and they differ
\* in the one counter character after the identifier and nowhere else.
C11_CounterSeparatesCustomIds ==
    MadeAgain =>
        LET a == Get(sample).custom_id
            b == last.custom_id
            k == Len(Get(sample).identifier) + 1
        IN  /\ a # b
            /\ Len(a) = Len(b)
            /\ k \in 1..Len(a)
            /\ a[k] # b[k]
            /\ \A i \in 1..Len(a) : i # k => a[i] = b[i]

C11_Witness ==
    /\ MadeAgain
    /\ Get(sample).since = 24
    /\ last.custom_id[Len(Get(sample).identifier) + 1]
         < Get(sample).custom_id[Len(Get(sample).identifier) + 1]

\* A step is a call of make_custom_id.
IsMake == last'.op = "make_custom_id" /\ last' # last

\* C12: every manager's counter is in 0..24; make_custom_id puts the
\* character of the counter's value before the call after the identifier
\* and advances the counter by one, from 24 to 0, and it does so on the
\* manager it is called on only, and only when count is enabled there.
C12_CounterStep ==
    /\ \A name \in Names : _counter[name] \in 0..24
    /\ [][ /\ \A name \in Names : _counter'[name] \in 0..24
           /\ IsMake =>
                LET name == last'.mgr
                    advanced == last'.err = None /\ count(name)
                IN  /\ \A other \in Names \ {name} :
                          _counter'[other] = _counter[other]
                    /\ ~advanced => _counter'[name] = _counter[name]
                    /\ advanced =>
                         LET k == Len(Get(known_identifier(name, last'.type))) + 1
                         IN  /\ <<last'.custom_id[k]>> = _minimise_count(_counter[name])
                             /\ _counter'[name] =
                                  IF _counter[name] = 24 THEN 0
                                  ELSE _counter[name] + 1
         ]_vars

C12_Witness ==
    /\ last.op = "make_custom_id"
    /\ last.err = None
    /\ count(last.mgr)
    /\ _counter[last.mgr] = 0
    /\ last.custom_id[Len(Get(known_identifier(last.mgr, last.type))) + 1] = 24

---------------------------------------------------------------------------
(* Default parsers: the registry of parser types and the enum parser.      *)

\* The largest value of a flag or enum member.
MaxMember == 40

\* parser/base.py:20-21, as the imports of ryoshu.impl.parser leave it
\* (builtins.py:42-660, then enum.py:40), in insertion order.
_REV_PARSERS ==
    << [parser |-> "NoneParser",       types |-> {"NoneType"}],
       [parser |-> "FloatParser",      types |-> {"float"}],
       [parser |-> "IntParser",        types |-> {"int"}],
       [parser |-> "BoolParser",       types |-> {"bool"}],
       [parser |-> "StringParser",     types |-> {"str"}],
       [parser |-> "TupleParser",      types |-> {"tuple"}],
       [parser |-> "CollectionParser", types |-> {"Collection"}],
       [parser |-> "UnionParser",      types |-> {"Union"}],
       [parser |-> "EnumParser",
        types  |-> {"enum.Enum", "hikari.Enum", "enum.Flag", "hikari.Flag"}] >>

\* parser/base.py:22, builtins.py:398, enum.py:40
_PARSER_PRIORITY(parser) ==
    IF parser \in {"TupleParser", "EnumParser"} THEN 10 ELSE 0

\* The types a field is annotated with in these runs: the registered
\* int and str, an int flag of hikari (hikari.Intents), an int enum and a
\* str enum of the standard library, a subclass of int, and a class that
\* has no registered base.
FieldTypes == {"int", "str", "Intents", "IntEnum", "StrEnum", "MyInt", "Plain"}

\* The classes issubclass finds above a type, the type included.
Bases(type_) ==
    CASE type_ = "Intents" -> {"Intents", "hikari.Flag", "int"}
      [] type_ = "IntEnum" -> {"IntEnum", "enum.Enum", "int"}
      [] type_ = "StrEnum" -> {"StrEnum", "enum.Enum", "str", "Collection"}
      [] type_ = "MyInt"   -> {"MyInt", "int"}
      [] type_ = "str"     -> {"str", "Collection"}
      [] type_ = "MyStr"   -> {"MyStr", "str", "Collection"}
      [] type_ = "SubPlain" -> {"SubPlain", "Plain"}
      [] OTHER             -> {type_}

\* The member values of the enum and flag types; a hikari flag accepts
\* every combination of its bits, an enum its declared members only.
Members(type_) ==
    CASE type_ = "Intents" -> 0..MaxMember
      [] type_ = "IntEnum" -> {1, 16, 36}
      [] type_ = "StrEnum" -> {<<Chr.A>>, <<Chr.B, Chr.Pipe>>}
      [] OTHER             -> {}

\* enum.py:134-139: whether calling the enum class with a value finds a
\* member; a flag builds the combination of bits for any value.
enum_call(enum_class, value) ==
    IF "hikari.Flag" \in Bases(enum_class) THEN value >= 0
    ELSE value \in Members(enum_class)

\* parser/base.py:74-81
_issubclass(cls, class_or_tuple) == Bases(cls) \cap class_or_tuple # {}

\* parser/base.py:84-99: the parser type of a type, None for the TypeError.
_get_parser_type(type_) ==
    LET registered == {k \in 1..Len(_REV_PARSERS) :
                          type_ \in _REV_PARSERS[k].types}
        matching == {k \in 1..Len(_REV_PARSERS) :
                        _issubclass(type_, _REV_PARSERS[k].types)}
        best == {k \in matching :
                    \A j \in matching :
                       \/ _PARSER_PRIORITY(_REV_PARSERS[j].parser)
                            < _PARSER_PRIORITY(_REV_PARSERS[k].parser)
                       \/ /\ _PARSER_PRIORITY(_REV_PARSERS[j].parser)
                               = _PARSER_PRIORITY(_REV_PARSERS[k].parser)
                          /\ k <= j}
    IN  IF registered # {}
        THEN Some(_REV_PARSERS[CHOOSE k \in registered : TRUE].parser)
        ELSE IF matching # {}
        THEN Some(_REV_PARSERS[CHOOSE k \in best : TRUE].parser)
        ELSE None

\* enum.py:17-36; _member_type_ of an enum with a data type mixed in is
\* that data type.
_get_enum_type(enum_class) ==
    IF "hikari.Flag" \in Bases(enum_class) THEN "int"
    ELSE IF "int" \in Bases(enum_class) THEN "int"
    ELSE "str"

\* parser/base.py:103-125 with the default of each parser type
\* (base.py:151-164, enum.py:107-110, builtins.py:191-202): the parser
\* instance, None for the TypeError.
get_parser(type_) ==
    LET parser_type == _get_parser_type(type_)
    IN  IF parser_type = None THEN None
        ELSE IF Get(parser_type) = "EnumParser"
        THEN Some([parser |-> "EnumParser", enum_class |-> type_,
                   store_by_value |-> TRUE,
                   value_parser |->
                       Get(_get_parser_type(_get_enum_type(type_)))])
        ELSE Some([parser |-> Get(parser_type)])

\* builtins.py:227-254, 380-388 and enum.py:141-159: dumps of a parser
\* instance, on a member's value for the enum parser.
parser_dumps(p, argument) ==
    LET kind == IF p.parser = "EnumParser" THEN p.value_parser ELSE p.parser
    IN  IF kind = "IntParser" THEN IntParser_dumps(argument, 36)
        ELSE argument

\* builtins.py:204-225, 366-378 and enum.py:112-139: loads of a parser
\* instance, [err, value]; the enum parser looks the parsed value up in
\* the enum class.
parser_loads(p, argument) ==
    LET kind == IF p.parser = "EnumParser" THEN p.value_parser ELSE p.parser
        parsed == IF kind = "IntParser"
                  THEN IntParser_loads(argument, 36, TRUE)
                  ELSE [err |-> None, value |-> argument]
    IN  IF parsed.err # None THEN parsed
        ELSE IF p.parser = "EnumParser"
                /\ ~enum_call(p.enum_class, parsed.value)
        THEN [err |-> Some("ValueError"), value |-> parsed.value]
        ELSE parsed

\* The values a run dumps: the members of an enum or flag type, and
\* plain values of the other types.
ParserValues(type_) ==
    IF Members(type_) # {} THEN Members(type_)
    ELSE IF "int" \in Bases(type_) THEN 0..MaxMember
    ELSE {<<Chr.A>>}

ParserSamples ==
    UNION {{[type |-> type_, member |-> v] : v \in ParserValues(type_)} :
              type_ \in FieldTypes}

\* parser/base.py:103-125: the caller asks for the default parser of the
\* type.
GetParser ==
    /\ last.op = "none"
    /\ \E p \in {get_parser(sample.type)} :
          last' = CallWith("get_parser", <<>>, sample.type, None, <<>>,
                           IF p = None THEN Some("TypeError") ELSE None, p)
    /\ UNCHANGED <<treeVars, configVars, hookVars, invVars, calls, sample>>

\* The caller dumps the value with the parser it was given.
Dumps ==
    /\ last.op = "get_parser"
    /\ last.err = None
    /\ last' = CallWith("dumps", <<>>, sample.type, None,
                        parser_dumps(Get(last.result), sample.member),
                        None, last.result)
    /\ UNCHANGED <<treeVars, configVars, hookVars, invVars, calls, sample>>

\* The caller loads the dumped string with the same parser.
Loads ==
    /\ last.op = "dumps"
    /\ \E r \in {parser_loads(Get(last.result), last.custom_id)} :
          last' = CallWith("loads", <<>>, sample.type, None, last.custom_id,
                           r.err, Some(r.value))
    /\ UNCHANGED <<treeVars, configVars, hookVars, invVars, calls, sample>>

InitParser ==
    /\ TreeCreated
    /\ InitConfig
    /\ InitHooks
    /\ InitInv
    /\ last = NoCall
    /\ calls = 0
    /\ sample \in ParserSamples

NextParser == GetParser \/ Dumps \/ Loads

SpecParser == InitParser /\ [][NextParser]_vars

\* The enum and flag types that are not registered and have a registered
\* primitive among their bases.
IsEnumOverPrimitive(type_) ==
    /\ Bases(type_) \cap {"enum.Enum", "hikari.Enum", "enum.Flag", "hikari.Flag"} # {}
    /\ Bases(type_) \cap {"int", "str"} # {}

\* C13: the default parser of an unregistered enum or flag type that
\* subclasses a registered primitive is the enum parser, and loading what
\* it dumped for a member returns the member.
C13_EnumParserRoundTrip ==
    (last.op = "loads" /\ IsEnumOverPrimitive(sample.type)) =>
        /\ Get(get_parser(sample.type)).parser = "EnumParser"
        /\ last.err = None
        /\ last.result = Some(sample.member)

\* The part of C13 that holds: the resolution to the enum parser, and the
\* round trip of the members the integer parser writes in one notation,
\* those under 10 and those from 36 on.
C13_EnumParserResolved ==
    (last.op = "loads" /\ IsEnumOverPrimitive(sample.type)) =>
        /\ Get(get_parser(sample.type)).parser = "EnumParser"
        /\ (sample.type # "StrEnum" /\ sample.member \in 10..35)
             \/ (last.err = None /\ last.result = Some(sample.member))

---------------------------------------------------------------------------
(* Configuration: get_manager and config on an empty store.                *)

\* The arguments config is called with: left at hikari.UNDEFINED, None,
\* or a value (False and the empty string among them).
ConfigCounts == {UNDEFINED, None, Some(TRUE), Some(FALSE)}

ConfigSeps == {UNDEFINED, None, Some(<<Chr.Colon>>), Some(<<>>)}

InitTreeSpec ==
    /\ InitTree
    /\ InitConfig
    /\ InitHooks
    /\ InitInv
    /\ last = NoCall
    /\ calls = 0
    /\ sample = NoSample

NextTree ==
    \/ \E name \in Names : GetManager(name)
    \/ \E name \in Names, new_count \in ConfigCounts, new_sep \in ConfigSeps :
          Config(name, new_count, new_sep)

SpecTree == InitTreeSpec /\ [][NextTree]_vars

\* The managers of a manager's chain on which an attribute is set.
SetOnChain(name, attribute) ==
    {x \in Names : IsSelfOrAncestor(x, name) /\ attribute[x] # None}

\* The value set on the manager of the chain nearest to name, the default
\* when none has one.
NearestSet(name, attribute, default) ==
    IF SetOnChain(name, attribute) = {} THEN default
    ELSE Get(attribute[CHOOSE x \in SetOnChain(name, attribute) :
                          \A y \in SetOnChain(name, attribute) :
                             Depth(y) <= Depth(x)])

\* C14: after any sequence of get_manager and config calls, sep and count
\* of every manager are the values set on the nearest manager of its chain
\* that has one, itself first, an explicit False included, and "|" and
\* True when none has one.
C14_ConfigInherited ==
    \A name \in _MANAGER_STORE :
        /\ count(name) = NearestSet(name, _count, TRUE)
        /\ sep(name) = NearestSet(name, _sep, <<Chr.Pipe>>)

C14_Witness ==
    /\ <<"a", "b">> \in _MANAGER_STORE
    /\ _count[<<"a", "b">>] = None
    /\ _count[<<"a">>] = Some(FALSE)
    /\ _count[_ROOT] = Some(TRUE)
    /\ count(<<"a", "b">>) = FALSE
    /\ sep(<<"a", "b">>) = <<Chr.Pipe>>

---------------------------------------------------------------------------
(* Dispatch of interactions whose component cannot be rebuilt.             *)

\* The identifier and the parameters a manager reads from a custom id.
DecodedIdentifier(name, custom_id) == get_identifier(name, custom_id)[1]

DecodedParams(name, custom_id) == get_identifier(name, custom_id)[2]

\* The type a manager holds for the identifier of a custom id, None when
\* it holds none.
RegisteredType(name, custom_id) ==
    IF custom_id = <<>> THEN None
    ELSE Lookup(_components[name], DecodedIdentifier(name, custom_id))

\* manager.py:399-404: the identifier of the custom id is registered on
\* the manager and the module recorded for it is no longer the one in
\* sys.modules.
IsStale(name, custom_id) ==
    /\ RegisteredType(name, custom_id) # None
    /\ Lookup(_module_data[name], DecodedIdentifier(name, custom_id)) # None
    /\ ~is_active(Get(_module_data[name][DecodedIdentifier(name, custom_id)]))

\* A step is a call of parse_raw_component, on its own or from invoke.
IsParse == last'.op \in {"parse", "invoke"} /\ last' # last

\* C15: parse_raw_component on a custom id whose registered identifier
\* has a stale module removes the identifier from the owning manager and
\* every ancestor and returns None without raising, for the default
\* identifier and for an explicit one; no callback runs.
C15_StaleIdentifierRemoved ==
    [][ (IsParse /\ IsStale(last'.mgr, last'.custom_id)) =>
           LET t == Get(RegisteredType(last'.mgr, last'.custom_id))
               identifier == DecodedIdentifier(last'.mgr, last'.custom_id)
           IN  /\ last'.err = None
               /\ last'.result = None
               /\ pc' = "idle"
               /\ \A x \in Names :
                     IsSelfOrAncestor(x, Get(type_manager[t]))
                        => _components'[x][identifier] = None
      ]_vars

---------------------------------------------------------------------------
(* Interactions end to end: registration, invoke, the invocation, and the  *)
(* end of invoke.                                                          *)

\* manager.py:677-685: invoke_component has returned or raised inside
\* invoke; the finally clause resets the context variable and invoke
\* returns or lets the exception through.
InvokeFinally ==
    /\ pc = "done"
    /\ last.op = "invoke"
    /\ _COMPONENT_CTX # None
    /\ _COMPONENT_CTX' = reset_context(None, _COMPONENT_CTX, Get(outcome))
    /\ last' = [last EXCEPT
                  !.err = IF Get(outcome).result = "raised"
                          THEN Some(Get(Get(outcome).exception).kind)
                          ELSE None,
                  !.result = Some(Get(_COMPONENT_CTX)[1])]
    /\ pc' = "idle"
    /\ managers' = <<>>
    /\ todo' = <<>>
    /\ stack' = <<>>
    /\ exc' = None
    /\ log' = <<>>
    /\ outcome' = None
    /\ UNCHANGED <<treeVars, configVars, hookVars, calls, sample>>

\* manager.py:501-542, with a record kept in sample: gone holds the types
\* whose last successful call was deregister_component, again the types
\* registered after that.
RegisterComponentAgain(name, t, identifier) ==
    /\ RegisterComponentCall(name, t, identifier)
    /\ sample' = IF last'.err = None /\ t \in sample.gone
                 THEN [gone |-> sample.gone \ {t}, again |-> sample.again \cup {t}]
                 ELSE sample
    /\ UNCHANGED calls

\* manager.py:544-566, likewise.
DeregisterComponentAgain(name, t) ==
    /\ DeregisterComponentCall(name, t)
    /\ sample' = IF last'.err = None
                 THEN [gone |-> sample.gone \cup {t}, again |-> sample.again \ {t}]
                 ELSE sample
    /\ UNCHANGED calls

\* The component types of these runs: t1 with the factory of the
\* library, t2 with a factory written to the api.
EventTypes == {"t1", "t2"}

\* The custom ids of the interactions: "A|5", "A" (no parameter), "A|-"
\* (a parameter int() rejects) and "X|5".
EventCustomIds ==
    LET five == Chr.Zero + 5
    IN  {<<Chr.A, Chr.Pipe, five>>, <<Chr.A>>,
         <<Chr.A, Chr.Pipe, Chr.Minus>>, <<Chr.X, Chr.Pipe, five>>}

InitEvent ==
    /\ TreeCreated
    /\ InitConfig
    /\ InitHooks
    /\ InitInv
    /\ last = NoCall
    /\ calls = 0
    /\ sample = [gone |-> {}, again |-> {}]

NextEvent ==
    \/ \E t \in EventTypes, identifier \in ExplicitIdentifiers :
          RegisterComponentAgain(<<"a", "b">>, t, identifier)
    \/ \E t \in EventTypes : DeregisterComponentAgain(<<"a", "b">>, t)
    \/ AsCallbackWrapper(<<"a", "b">>)
    \/ AsExceptionHandler(_ROOT)
    \/ \E custom_id \in EventCustomIds : Invoke(_ROOT, custom_id)
    \/ NoWrapper
    \/ \E kind \in ExcKinds : EnterWrapper("raise", kind)
    \/ EnterWrapper("yield", "-")
    \/ \E kind \in ExcKinds : RunCallback("raise", kind)
    \/ RunCallback("return", "-")
    \/ \E result \in {"return", "reraise", "swallow"} : ExitWrapper(result, "-")
    \/ \E kind \in ExcKinds : ExitWrapper("raise", kind)
    \/ LeaveStack
    \/ NoHandler
    \/ \E result \in HandlerResults \ {"raise"} : HandleError(result, "-")
    \/ \E kind \in ExcKinds : HandleError("raise", kind)
    \/ Unhandled
    \/ InvokeFinally

SpecEvent == InitEvent /\ [][NextEvent]_vars

\* A step is invoke's call of parse_raw_component.
IsInvoke == pc = "idle" /\ last'.op = "invoke" /\ (last' # last \/ pc' # pc)

\* The identifier of the custom id is registered on the manager with a
\* module that is still the one in sys.modules: the component is rebuilt.
IsRebuilt(name, custom_id) ==
    /\ RegisteredType(name, custom_id) # None
    /\ Lookup(_module_data[name], DecodedIdentifier(name, custom_id)) # None
    /\ ~IsStale(name, custom_id)

\* invoke returned without a trace: no exception, no invocation, no hook
\* or callback run, the context variable as it was.
ReturnedUnmatched ==
    /\ last'.err = None
    /\ pc' = "idle"
    /\ log' = log
    /\ _COMPONENT_CTX' = _COMPONENT_CTX

\* C16: an interaction whose custom id carries a registered identifier
\* and a number of parameters other than the type's number of fields is
\* treated as unmatched: invoke returns without raising and runs no
\* callback, wrapper or handler.
C16_ParameterCountMismatchUnmatched ==
    [][ (/\ IsInvoke
         /\ IsRebuilt(last'.mgr, last'.custom_id)
         /\ Len(DecodedParams(last'.mgr, last'.custom_id))
               # Len(parsers(Get(RegisteredType(last'.mgr, last'.custom_id)))))
        => ReturnedUnmatched
      ]_vars

\* The parameters of the custom id are as many as the type's fields and
\* a field's parser raises on loading one of them.
LoadsRaises(name, custom_id) ==
    LET t == Get(RegisteredType(name, custom_id))
        params == DecodedParams(name, custom_id)
    IN  /\ Len(params) = Len(parsers(t))
        /\ load_params(t, params).err # None

\* C17: when a field parser's loads raises while invoke rebuilds the
\* component, the exception goes through the exception handlers of the
\* chain, as an exception of the callback does: the handlers are tried
\* from the owning manager, and invoke raises only if none returns True.
C17_LoadsErrorHandled ==
    [][ (/\ IsInvoke
         /\ IsRebuilt(last'.mgr, last'.custom_id)
         /\ Get(RegisteredType(last'.mgr, last'.custom_id)) \in ApiFactoryTypes
         /\ LoadsRaises(last'.mgr, last'.custom_id)
         /\ \E x \in Names : _exception_handler[x])
        => /\ pc' = "handle"
           /\ exc' # None
           /\ last'.err = None
      ]_vars

\* The custom id's parameters load into the fields of the registered
\* type.
ParamsLoad(name, custom_id) ==
    load_params(Get(RegisteredType(name, custom_id)),
                DecodedParams(name, custom_id)).err = None

\* C18: after deregister_component(T) has completed, no interaction runs
\* T's callback, wrappers or handlers until T is registered again;
\* registering T again succeeds while its identifier is free, and
\* interactions with T's identifier then start T's invocation again.
C18_DeregisteredUntilRegisteredAgain ==
    [][ /\ (IsInvoke /\ pc' = "enter")
            => Get(_COMPONENT_CTX')[1].type \notin sample.gone
        /\ (/\ last'.op = "register"
            /\ last' # last
            /\ last'.type \in sample.gone
            /\ _components[_ROOT][resolve_identifier(last'.type, last'.identifier)]
                  = None)
            => last'.err = None
        /\ (/\ IsInvoke
            /\ IsRebuilt(last'.mgr, last'.custom_id)
            /\ Get(RegisteredType(last'.mgr, last'.custom_id)) \in sample.again
            /\ ParamsLoad(last'.mgr, last'.custom_id))
            => /\ last'.err = None
               /\ pc' = "enter"
               /\ Get(_COMPONENT_CTX')[1].type
                     = Get(RegisteredType(last'.mgr, last'.custom_id))
      ]_vars

\* C20: the binding of component and custom id exists only while invoke
\* runs the component, and it is reset when invoke finishes, whether the
\* invocation returned, had its exception handled, or raised; outside an
\* invocation there is no component in flight.
C20_ContextBoundDuringInvoke ==
    /\ pc = "idle" => _COMPONENT_CTX = None
    /\ pc # "idle" =>
         /\ last.op = "invoke"
         /\ _COMPONENT_CTX # None
         /\ Get(_COMPONENT_CTX)[2] = last.custom_id
         /\ RegisteredType(last.mgr, last.custom_id)
               = Some(Get(_COMPONENT_CTX)[1].type)

\* invoke has finished with the exception of an invocation that ran and
\* left no binding behind.
C20_Witness ==
    /\ pc = "idle"
    /\ last.op = "invoke"
    /\ last.result # None
    /\ last.err = Some("Exception")
    /\ _exception_handler[_ROOT]
    /\ _COMPONENT_CTX = None

\* C19: deregister_component(T) for a type that was never registered
\* fails with an error and leaves every registration as it was, also when
\* another registered type has T's class name.
C19_DeregisterUnregisteredFails ==
    [][ (IsCall("deregister") /\ type_manager[last'.type] = None) =>
           /\ last'.err # None
           /\ UNCHANGED <<_components, _identifiers, _module_data,
                          type_manager>>
      ]_vars

---------------------------------------------------------------------------
(* parse_message_components, called while a callback runs.                 *)

\* The most components in a row and rows in a message.
MaxRow == 2

\* The custom ids of the components on a message: "A|5", "X|5" and "Z|5".
MessageCustomIds ==
    LET five == Chr.Zero + 5
    IN  {<<Chr.A, Chr.Pipe, five>>, <<Chr.X, Chr.Pipe, five>>,
         <<Chr.A + 25, Chr.Pipe, five>>}

\* hikari.Message.components: rows of components, each with a custom id.
Messages ==
    LET rows == UNION {[1..n -> MessageCustomIds] : n \in 1..MaxRow}
    IN  UNION {[1..n -> rows] : n \in 1..MaxRow}

\* The components of a message in the order the loops of
\* manager.py:469-472 visit them, each with the number of its row.
RECURSIVE RowsFrom(_, _)
RowsFrom(message, k) ==
    IF k > Len(message) THEN <<>>
    ELSE [i \in 1..Len(message[k]) |-> [row |-> k, custom_id |-> message[k][i]]]
         \o RowsFrom(message, k + 1)

\* manager.py:472-484: the loop body over the components still to visit.
\* parsed is what parse_raw_component gives for each custom id, current
\* the in-flight binding that can still be used, and out what the loop
\* has put in the rows so far: per component its row and the in-flight
\* instance, a new instance, or the raw component.  [err, out]
RECURSIVE parse_components(_, _, _, _)
parse_components(parsed, items, current, out) ==
    IF items = <<>> THEN [err |-> None, out |-> out]
    ELSE IF current # None /\ Head(items).custom_id = Get(current)[2]
    THEN parse_components(parsed, Tail(items), None,
             Append(out, [row |-> Head(items).row, instance |-> "in_flight",
                          component |-> Get(current)[1],
                          custom_id |-> Head(items).custom_id]))
    ELSE IF parsed[Head(items).custom_id].kind = "raise"
    THEN [err |-> parsed[Head(items).custom_id].err, out |-> <<>>]
    ELSE parse_components(parsed, Tail(items), current,
             Append(out, [row |-> Head(items).row,
                          instance |->
                              IF parsed[Head(items).custom_id].kind = "component"
                              THEN "new" ELSE "raw",
                          component |-> parsed[Head(items).custom_id].component,
                          custom_id |-> Head(items).custom_id]))

\* manager.py:426-486: [err, message, out]; new_rows holds the entries of
\* out by row, rich_components the entries that are not raw.  No module
\* is reloaded in these runs, so no call of parse_raw_component changes
\* what the next one finds.
parse_message_components(parsed, message) ==
    [message |-> message] @@
    parse_components(parsed, RowsFrom(message, 1), _COMPONENT_CTX, <<>>)

NoParsed == [message |-> <<>>, err |-> None, out |-> <<>>]

\* The callback of the running invocation calls parse_message_components
\* on a manager.
ParseMessageComponents(name) ==
    /\ pc = "enter"
    /\ todo = <<>>
    /\ name \in _MANAGER_STORE
    /\ \E parsed \in {[custom_id \in MessageCustomIds |->
                          parse_raw_component(name, custom_id)]} :
          \E message \in Messages :
             sample' = parse_message_components(parsed, message)
    /\ UNCHANGED <<treeVars, configVars, hookVars, invVars, last, calls>>

InitMessage ==
    /\ TreeCreated
    /\ InitConfig
    /\ InitHooks
    /\ InitInv
    /\ last = NoCall
    /\ calls = 0
    /\ sample = NoParsed

NextMessage ==
    \/ \E t \in EventTypes, identifier \in ExplicitIdentifiers :
          RegisterComponent(<<"a", "b">>, t, identifier)
    \/ \E custom_id \in MessageCustomIds : Invoke(_ROOT, custom_id)
    \/ NoWrapper
    \/ ParseMessageComponents(_ROOT)
    \/ RunCallback("return", "-")
    \/ LeaveStack
    \/ InvokeFinally

SpecMessage == InitMessage /\ [][NextMessage]_vars

\* The positions of a parsed message that hold the custom id of the
\* interaction being handled.
Matching(out) ==
    {k \in 1..Len(out) : out[k].custom_id = Get(_COMPONENT_CTX)[2]}

\* C21: parse_message_components called inside a callback returns the
\* instance being invoked at the first position whose custom id is the
\* interaction's, uses it once, and builds every other managed component
\* anew.
C21_InFlightInstanceReused ==
    [][ (pc = "enter" /\ todo = <<>> /\ sample' # sample) =>
           /\ sample'.err = None
           /\ Len(sample'.out) = Len(RowsFrom(sample'.message, 1))
           /\ \A k \in 1..Len(sample'.out) :
                 /\ sample'.out[k].instance = "in_flight"
                       <=> (k \in Matching(sample'.out)
                            /\ \A j \in Matching(sample'.out) : k <= j)
                 /\ sample'.out[k].instance = "in_flight"
                       => sample'.out[k].component = Get(_COMPONENT_CTX)[1]
                 /\ (sample'.out[k].instance # "in_flight"
                     /\ RegisteredType(_ROOT, sample'.out[k].custom_id) # None)
                       => sample'.out[k].instance = "new"
      ]_vars

(***************************************************************************)
(* The factory's parameter loading, on drawn field layouts.  A layout is   *)
(* the factory's `parsers` mapping in declaration order, one parser per    *)
(* field; the parameter strings are the ones decoded from a custom id.     *)
(***************************************************************************)
is_sourced(p) ==
    p.parser \in {"TupleParser", "CollectionParser", "UnionParser", "EnumParser"}

FieldParsers ==
    {Get(get_parser(type_)) : type_ \in {"int", "str", "Intents"}}

Layouts == UNION {[1..n -> FieldParsers] : n \in 0..MaxParams}

\* The strings of the layout runs: "", "5", "10" and "-".
FieldStrings == {<<>>, <<Chr.Zero + 5>>, <<Chr.Zero + 1, Chr.Zero>>, <<Chr.Minus>>}

ParamLists == UNION {[1..n -> FieldStrings] : n \in 0..(MaxParams + 1)}

\* loads_param looks the field's parser up and calls parser.loads(value) with
\* the string alone: a sourced parser, whose `source` is a required keyword,
\* raises TypeError at the call.
loads_param(p, value) ==
    IF is_sourced(p)
    THEN [err |-> Some("TypeError"), value |-> value, source |-> None]
    ELSE [source |-> None] @@ parser_loads(p, value)

RECURSIVE load_fields(_, _, _, _)
load_fields(ps, params, k, acc) ==
    IF k > Len(ps) THEN acc
    ELSE IF params[k] = <<>>
    THEN load_fields(ps, params, k + 1,
                     [acc EXCEPT !.loaded = Append(@, None)])
    ELSE LET r == loads_param(ps[k], params[k])
         IN  IF r.err # None
             THEN [acc EXCEPT !.err = r.err,
                              !.invoked = Append(@, [field |-> k, source |-> r.source])]
             ELSE load_fields(ps, params, k + 1,
                              [acc EXCEPT !.loaded = Append(@, Some(r.value)),
                                          !.invoked = Append(@, [field |-> k,
                                                                 source |-> r.source])])

NothingLoaded == [err |-> None, loaded |-> <<>>, invoked |-> <<>>]

\* load_params on a layout: `loaded` holds, per declared field, the parsed
\* value or None when the field is absent from the mapping; `invoked` lists
\* the loads calls made, in order.
load_params_of(ps, params) ==
    IF Len(params) # Len(ps)
    THEN [NothingLoaded EXCEPT !.err = Some("ValueError")]
    ELSE load_fields(ps, params, 1, NothingLoaded)

\* The rebuild as parse_raw_component asks for it:
\* factory.build_component(reference, params, component_params=...).
build_from_reference(ps, params) ==
    LET call == Bind(build_component_signature, <<"reference", params>>,
                     [component_params |-> "internal"])
    IN  IF call.err # None
        THEN [NothingLoaded EXCEPT !.err = call.err]
        ELSE load_params_of(ps, call.args["params"])

LoadParams ==
    /\ last.op = "none"
    /\ \E r \in {load_params_of(sample.parsers, sample.params)} :
          last' = CallWith("load_params", <<>>, "-", None, <<>>, r.err, Some(r))
    /\ UNCHANGED <<treeVars, configVars, hookVars, invVars, calls, sample>>

BuildFromReference ==
    /\ last.op = "none"
    /\ \E r \in {build_from_reference(sample.parsers, sample.params)} :
          last' = CallWith("build_component", <<>>, "-", None, <<>>, r.err, Some(r))
    /\ UNCHANGED <<treeVars, configVars, hookVars, invVars, calls, sample>>

InitFactory ==
    /\ TreeCreated
    /\ InitConfig
    /\ InitHooks
    /\ InitInv
    /\ last = NoCall
    /\ calls = 0
    /\ sample \in {[parsers |-> ps, params |-> params] :
                     ps \in Layouts, params \in ParamLists}

NextFactory == LoadParams \/ BuildFromReference

SpecFactory == InitFactory /\ [][NextFactory]_vars

\* What a field's parser makes of a string when it is called as its loads
\* signature requires.
Accepts(p, value) == parser_loads(p, value).err = None

\* C22: load_params pairs the i-th string with the i-th declared field; it
\* raises when the counts differ, and otherwise returns exactly the fields
\* whose string is non-empty, each parsed by its own field's parser, with no
\* parser invoked for an empty string.
C22_LoadParamsPairsPositionally ==
    last.op = "load_params" =>
        LET ps == sample.parsers
            params == sample.params
            r == Get(last.result)
        IN  IF Len(params) # Len(ps)
            THEN last.err = Some("ValueError")
            ELSE (\A k \in 1..Len(ps) : params[k] = <<>> \/ Accepts(ps[k], params[k]))
                 => /\ last.err = None
                    /\ Len(r.loaded) = Len(ps)
                    /\ \A k \in 1..Len(ps) :
                          r.loaded[k] = IF params[k] = <<>> THEN None
                                        ELSE Some(parser_loads(ps[k], params[k]).value)
                    /\ {c.field : c \in Range(r.invoked)}
                         = {k \in 1..Len(ps) : params[k] # <<>>}

\* The part of C22 that the code keeps: the same statement over layouts
\* whose parsers take the string alone.
C22_UnsourcedFieldsPaired ==
    (last.op = "load_params" /\ \A k \in DOMAIN sample.parsers :
                                   ~is_sourced(sample.parsers[k]))
        => C22_LoadParamsPairsPositionally

\* C23: on rebuild the build step receives the reference, the raw strings
\* and the internal fields, and every sourced parser's loads is given the
\* reference as source while unsourced parsers are called without it.
C23_ReferenceSuppliedAsSource ==
    last.op = "build_component" =>
        /\ last.err \in {None, Some("ValueError")}
        /\ \A c \in Range(Get(last.result).invoked) :
              c.source = IF is_sourced(sample.parsers[c.field])
                         THEN Some("reference") ELSE None

(***************************************************************************)
(* get_manager with the manager objects told apart: every construction of  *)
(* a ComponentManager makes a new object, numbered in order of creation.   *)
(* `store` is _MANAGER_STORE (name to object), `objects` the objects made, *)
(* each with its name and its children set.                                *)
(***************************************************************************)
NoNodes == [store |-> [n \in Names |-> None], objects |-> <<>>]

RECURSIVE get_manager_node(_, _)

\* get_manager without the recursive call for the ancestors.
get_manager_node_unlinked(name, st) ==
    IF st.store[name] # None
    THEN [store |-> st.store, objects |-> st.objects, node |-> Get(st.store[name])]
    ELSE [store   |-> [st.store EXCEPT ![name] = Some(Len(st.objects) + 1)],
          objects |-> Append(st.objects, [name |-> name, children |-> {}]),
          node    |-> Len(st.objects) + 1]

get_manager_node(name, st) ==
    IF st.store[name] # None
    THEN [store |-> st.store, objects |-> st.objects, node |-> Get(st.store[name])]
    ELSE LET manager == Len(st.objects) + 1
             st1 == [store   |-> [st.store EXCEPT ![name] = Some(manager)],
                     objects |-> Append(st.objects,
                                        [name |-> name, children |-> {}])]
         IN  IF Len(name) > 1
             THEN \* "." in name: root, _ = name.rsplit(".", 1)
                  LET r == get_manager_node(SubSeq(name, 1, Len(name) - 1), st1)
                  IN  [store   |-> r.store,
                       objects |-> [r.objects EXCEPT
                                      ![r.node].children = @ \cup {manager}],
                       node    |-> manager]
             ELSE [store |-> st1.store, objects |-> st1.objects, node |-> manager]

\* manager.py:939-942: no name means the root's name.
name_or_root(name) == IF name = None THEN _ROOT ELSE Get(name)

GetManagerNode(name) ==
    /\ pc = "idle"
    /\ \E r \in {get_manager_node(name_or_root(name), sample)} :
          /\ sample' = [store |-> r.store, objects |-> r.objects]
          /\ _MANAGER_STORE' = {n \in Names : r.store[n] # None}
          /\ _children' = [n \in Names |->
                             IF r.store[n] = None THEN {}
                             ELSE {r.objects[c].name :
                                     c \in r.objects[Get(r.store[n])].children}]
          /\ last' = CallWith("get_manager", name_or_root(name), "-", name,
                              <<>>, None, Some(r.node))
    /\ UNCHANGED <<_components, _identifiers, _module_data, type_manager,
                   sys_modules, configVars, hookVars, invVars, calls>>

InitNodes ==
    /\ InitTree
    /\ InitConfig
    /\ InitHooks
    /\ InitInv
    /\ last = NoCall
    /\ calls = 0
    /\ sample = NoNodes

NextNodes == \E name \in {None} \cup {Some(n) : n \in Names} : GetManagerNode(name)

SpecNodes == InitNodes /\ [][NextNodes]_vars

\* The name and its dot-ancestors: "a.b" has "a.b" and "a".
DotChain(name) == {SubSeq(name, 1, k) : k \in 1..Len(name)}

\* C24: the first get_manager(name) creates the node and every missing
\* dot-ancestor, each linked as a child of its parent; a later call returns
\* the same node and changes nothing; no name has two live nodes; and
\* get_manager() returns the root.
C24_GetManagerIdempotent ==
    [][ last'.op = "get_manager" =>
          LET name == last'.mgr
              node == Get(last'.result)
              made == Len(sample.objects)
          IN  /\ sample'.store[name] = Some(node)
              /\ sample'.objects[node].name = name
              /\ sample.store[name] # None =>
                    /\ sample' = sample
                    /\ _MANAGER_STORE' = _MANAGER_STORE
                    /\ _children' = _children
              /\ sample.store[name] = None =>
                    /\ node > made
                    /\ \A n \in Names :
                          sample'.store[n] =
                             IF n \in DotChain(name) /\ sample.store[n] = None
                             THEN sample'.store[n] ELSE sample.store[n]
                    /\ \A n \in DotChain(name) :
                          /\ sample'.store[n] # None
                          /\ sample.store[n] = None => Get(sample'.store[n]) > made
                          /\ (Len(n) > 1 /\ sample.store[n] = None) =>
                                Get(sample'.store[n]) \in
                                   sample'.objects[Get(sample'.store[
                                       SubSeq(n, 1, Len(n) - 1)])].children
                    /\ \A k \in 1..made :
                          sample.objects[k].children \subseteq sample'.objects[k].children
              /\ \A i, j \in DOMAIN sample'.objects :
                    sample'.objects[i].name = sample'.objects[j].name => i = j
              /\ last'.identifier = None =>
                    /\ name = _ROOT
                    /\ Some(node) = sample'.store[_ROOT]
      ]_vars

\* "a.b" was asked for first (objects 1 and 2 are a.b and a), then "c", and
\* the last call asked for "a.b" again and got object 1.
C24_Witness ==
    /\ last.op = "get_manager"
    /\ last.mgr = <<"a", "b">>
    /\ last.result = Some(1)
    /\ Len(sample.objects) = 3
    /\ sample.store[<<"a">>] = Some(2)
    /\ 1 \in sample.objects[2].children

(***************************************************************************)
(* The parser registry as register_parser changes it.  A registry is the   *)
(* three dicts of parser/base.py:20-22; _REV_PARSERS is kept as a sequence *)
(* because _get_parser_type depends on its insertion order.                *)
(***************************************************************************)
ParserClasses ==
    {_REV_PARSERS[k].parser : k \in 1..Len(_REV_PARSERS)} \cup {"ParserA"}

\* The types resolved in these runs: "MyStr" is a subclass of str (and so
\* a Collection), "SubPlain" a subclass of "Plain".
ResolvedTypes == {"int", "str", "MyInt", "MyStr", "Plain", "SubPlain", "Intents"}

\* The types that are or may become keys of _PARSERS.
RegistryTypes ==
    UNION {_REV_PARSERS[k].types : k \in 1..Len(_REV_PARSERS)} \cup ResolvedTypes

\* The register_parser calls of the imports, in order.
BuiltinCalls ==
    [k \in 1..Len(_REV_PARSERS) |->
        [parser |-> _REV_PARSERS[k].parser, types |-> _REV_PARSERS[k].types,
         priority |-> _PARSER_PRIORITY(_REV_PARSERS[k].parser), force |-> TRUE]]

BuiltinRegistry ==
    [_PARSERS |-> [type_ \in RegistryTypes |->
                      IF \E k \in 1..Len(_REV_PARSERS) : type_ \in _REV_PARSERS[k].types
                      THEN Some(_REV_PARSERS[CHOOSE k \in 1..Len(_REV_PARSERS) :
                                               type_ \in _REV_PARSERS[k].types].parser)
                      ELSE None],
     _REV_PARSERS |-> _REV_PARSERS,
     _PARSER_PRIORITY |-> [parser \in ParserClasses |->
                             IF parser = "ParserA" THEN None
                             ELSE Some(_PARSER_PRIORITY(parser))]]

\* The place of a parser class in _REV_PARSERS, 0 when it has none.
RevIndex(rev, parser) ==
    IF \E k \in 1..Len(rev) : rev[k].parser = parser
    THEN CHOOSE k \in 1..Len(rev) : rev[k].parser = parser
    ELSE 0

\* register_parser: the setter is dict.__setitem__ when forced and
\* dict.setdefault otherwise, on each of the three dicts.
register_parser(reg, parser, types, priority, force) ==
    LET k == RevIndex(reg._REV_PARSERS, parser)
    IN  [_REV_PARSERS |->
             IF k = 0
             THEN Append(reg._REV_PARSERS, [parser |-> parser, types |-> types])
             ELSE IF force
             THEN [reg._REV_PARSERS EXCEPT ![k].types = types]
             ELSE reg._REV_PARSERS,
         _PARSER_PRIORITY |->
             IF force \/ reg._PARSER_PRIORITY[parser] = None
             THEN [reg._PARSER_PRIORITY EXCEPT ![parser] = Some(priority)]
             ELSE reg._PARSER_PRIORITY,
         _PARSERS |->
             [type_ \in RegistryTypes |->
                 IF type_ \in types /\ (force \/ reg._PARSERS[type_] = None)
                 THEN Some(parser)
                 ELSE reg._PARSERS[type_]]]

\* The entries of _REV_PARSERS whose types hold a supertype of type_.
Entries(reg, type_) ==
    {k \in 1..Len(reg._REV_PARSERS) : _issubclass(type_, reg._REV_PARSERS[k].types)}

EntryPriority(reg, k) == Get(reg._PARSER_PRIORITY[reg._REV_PARSERS[k].parser])

\* The entries of highest priority among those accepting type_.
BestEntries(reg, type_) ==
    {k \in Entries(reg, type_) :
        \A j \in Entries(reg, type_) : EntryPriority(reg, j) <= EntryPriority(reg, k)}

\* A resolution that takes the last of the entries of highest priority.
_get_parser_type_latest(reg, type_) ==
    IF reg._PARSERS[type_] # None
    THEN reg._PARSERS[type_]
    ELSE IF Entries(reg, type_) # {}
    THEN Some(reg._REV_PARSERS[CHOOSE k \in BestEntries(reg, type_) :
                                  \A j \in BestEntries(reg, type_) : j <= k].parser)
    ELSE None

\* _get_parser_type on a registry: max() keeps the first of the entries
\* with the highest key, in the iteration order of _REV_PARSERS; None for
\* the TypeError.
_get_parser_type_in(reg, type_) ==
    IF reg._PARSERS[type_] # None
    THEN reg._PARSERS[type_]
    ELSE IF Entries(reg, type_) # {}
    THEN Some(reg._REV_PARSERS[CHOOSE k \in BestEntries(reg, type_) :
                                  \A j \in BestEntries(reg, type_) : k <= j].parser)
    ELSE None

RegisteredParsers == {"IntParser", "ParserA"}

RegisteredTypes == {{"int"}, {"str"}, {"Plain"}}

Priorities == {0, 10}

RegisterParser(parser, types, priority, force) ==
    /\ calls < MaxCalls
    /\ calls' = calls + 1
    /\ sample' = [reg |-> register_parser(sample.reg, parser, types, priority, force),
                  registered |-> Append(sample.registered,
                                        [parser |-> parser, types |-> types,
                                         priority |-> priority, force |-> force])]
    /\ last' = CallWith("register_parser", <<>>, "-", None, <<>>, None, Some(parser))
    /\ UNCHANGED <<treeVars, configVars, hookVars, invVars>>

GetParserType(type_) ==
    /\ \E r \in {_get_parser_type_in(sample.reg, type_)} :
          last' = CallWith("_get_parser_type", <<>>, type_, None, <<>>,
                           IF r = None THEN Some("TypeError") ELSE None, r)
    /\ UNCHANGED <<treeVars, configVars, hookVars, invVars, calls, sample>>

InitRegistry ==
    /\ TreeCreated
    /\ InitConfig
    /\ InitHooks
    /\ InitInv
    /\ last = NoCall
    /\ calls = 0
    /\ sample = [reg |-> BuiltinRegistry, registered |-> BuiltinCalls]

NextRegistry ==
    \/ \E parser \in RegisteredParsers, types \in RegisteredTypes,
          priority \in Priorities, force \in BOOLEAN :
          RegisterParser(parser, types, priority, force)
    \/ \E type_ \in ResolvedTypes : GetParserType(type_)

SpecRegistry == InitRegistry /\ [][NextRegistry]_vars

\* The register_parser calls made so far that name type_ itself, and those
\* that name one of its supertypes.
CallsFor(type_) ==
    {k \in DOMAIN sample.registered : type_ \in sample.registered[k].types}

CallsAccepting(type_) ==
    {k \in DOMAIN sample.registered :
        _issubclass(type_, sample.registered[k].types)}

IsResolution == last.op = "_get_parser_type"

\* C25: resolution returns the parser registered for exactly that type,
\* whatever the priorities; otherwise a parser of highest priority among
\* those registered for a supertype; and it fails only when no registered
\* type is a supertype.
C25_ExactThenHighestPriority ==
    IsResolution =>
        LET type_ == last.type
            exact == {sample.registered[k].parser : k \in CallsFor(type_)}
            accepting == {sample.registered[k].parser : k \in CallsAccepting(type_)}
            priorities(parser) ==
                {sample.registered[k].priority :
                    k \in {j \in CallsAccepting(type_) :
                              sample.registered[j].parser = parser}}
        IN  IF exact # {}
            THEN last.err = None /\ Get(last.result) \in exact
            ELSE IF accepting # {}
            THEN /\ last.err = None
                 /\ Get(last.result) \in accepting
                 /\ \A other \in accepting :
                       \E p \in priorities(Get(last.result)), q \in priorities(other) :
                          q <= p
            ELSE last.err = Some("TypeError")

\* The part of C25 that the code keeps: the same statement while no parser
\* class has been registered twice.
C25_RegisteredOnceResolved ==
    (\A j, k \in DOMAIN sample.registered :
        sample.registered[j].parser = sample.registered[k].parser => j = k)
        => C25_ExactThenHighestPriority

\* The parsers of equal highest priority that accept a type without an
\* exact registration, when there are several.
Tied(type_) ==
    IF sample.reg._PARSERS[type_] = None
       /\ Cardinality(BestEntries(sample.reg, type_)) > 1
    THEN {sample.reg._REV_PARSERS[k].parser : k \in BestEntries(sample.reg, type_)}
    ELSE {}

\* The first and the last register_parser call that named a parser class.
FirstCall(parser) ==
    CHOOSE k \in DOMAIN sample.registered :
        /\ sample.registered[k].parser = parser
        /\ \A j \in 1..(k - 1) : sample.registered[j].parser # parser

LastCall(parser) ==
    CHOOSE k \in DOMAIN sample.registered :
        /\ sample.registered[k].parser = parser
        /\ \A j \in (k + 1)..Len(sample.registered) :
              sample.registered[j].parser # parser

\* C26, as the spec states it: among several parsers of equal highest
\* priority the most recently registered one is returned.
C26_TieToMostRecent ==
    (IsResolution /\ Tied(last.type) # {}) =>
        /\ last.err = None
        /\ \A other \in Tied(last.type) :
              LastCall(other) <= LastCall(Get(last.result))

\* C26, amended: among several parsers of equal highest priority the one
\* whose class was registered first is returned.
C26_TieToEarliest ==
    (IsResolution /\ Tied(last.type) # {}) =>
        /\ last.err = None
        /\ Get(last.result) \in Tied(last.type)
        /\ \A other \in Tied(last.type) :
              FirstCall(Get(last.result)) <= FirstCall(other)

\* A subclass of str is resolved after ParserA was registered for str
\* without force: StringParser, CollectionParser and ParserA tie.
C26_Witness ==
    /\ IsResolution
    /\ last.type = "MyStr"
    /\ Tied("MyStr") = {"StringParser", "CollectionParser", "ParserA"}
    /\ last.result = Some("StringParser")

(***************************************************************************)
(* The integer parser on its own, for every base it can be built with.     *)
(***************************************************************************)
\* The largest absolute value of the integers dumped.
MaxInt == 50

\* builtins.py:27, 31: _BASE_BINARY and _BASE_MAX = len(_INT_CHARS).
Bases2To36 == 2..36

IntDumps ==
    /\ last.op = "none"
    /\ last' = CallWith("IntParser.dumps", <<>>, "int", None,
                        IntParser_dumps(sample.n, sample.base), None, None)
    /\ UNCHANGED <<treeVars, configVars, hookVars, invVars, calls, sample>>

IntLoads ==
    /\ last.op = "IntParser.dumps"
    /\ \E r \in {IntParser_loads(last.custom_id, sample.base, TRUE)} :
          last' = CallWith("IntParser.loads", <<>>, "int", None, last.custom_id,
                           r.err, Some(r.value))
    /\ UNCHANGED <<treeVars, configVars, hookVars, invVars, calls, sample>>

InitInt ==
    /\ TreeCreated
    /\ InitConfig
    /\ InitHooks
    /\ InitInv
    /\ last = NoCall
    /\ calls = 0
    /\ sample \in {[base |-> base, n |-> n] :
                     base \in Bases2To36, n \in (-MaxInt)..MaxInt}

NextInt == IntDumps \/ IntLoads

SpecInt == InitInt /\ [][NextInt]_vars

\* C27: for an IntParser of any base 2..36 with signed=True,
\* loads(dumps(n)) = n for every integer n, the negative ones included.
C27_IntParserRoundTrip ==
    last.op = "IntParser.loads" =>
        last.err = None /\ last.result = Some(sample.n)

\* The part of C27 that the code keeps: base 10, the one-digit numbers of
\* the base that are also decimal digits, and the numbers from the base on
\* unless the base is 12.
C27_RoundTripWhereDigitsAgree ==
    (/\ last.op = "IntParser.loads"
     /\ \/ sample.base = 10
        \/ sample.n >= 0 /\ sample.n < sample.base /\ sample.n < 10
        \/ sample.n >= sample.base /\ sample.base # 12)
        => C27_IntParserRoundTrip

(***************************************************************************)
(* The union parser.  Values carry their Python type, so that None, the    *)
(* empty string, 0 and False stay apart: [int |-> n], [str |-> s],         *)
(* [bool |-> b] and [none |-> TRUE].                                       *)
(***************************************************************************)
\* The largest number of members of a union.
MaxUnion == 3

IntV(n) == [int |-> n]
StrV(s) == [str |-> s]
BoolV(b) == [bool |-> b]
NoneV == [none |-> TRUE]

IsInt(x) == DOMAIN x = {"int"}
IsStr(x) == DOMAIN x = {"str"}
IsBool(x) == DOMAIN x = {"bool"}
IsNone(x) == DOMAIN x = {"none"}

\* bool(x)
Truthy(x) ==
    IF IsInt(x) THEN x.int # 0
    ELSE IF IsStr(x) THEN x.str # <<>>
    ELSE IF IsBool(x) THEN x.bool
    ELSE FALSE

\* The number a bool or an int compares as.
AsNumber(x) == IF IsBool(x) THEN (IF x.bool THEN 1 ELSE 0) ELSE x.int

\* x == y: a bool equals the int of its value.
PyEq(x, y) ==
    IF (IsInt(x) \/ IsBool(x)) /\ (IsInt(y) \/ IsBool(y))
    THEN AsNumber(x) = AsNumber(y)
    ELSE x = y

Lower(k) == Chr.LowerA + k

\* builtins.py:259-260: "true", "t", "yes", "y", "1" and
\* "false", "f", "no", "n", "0".
_DEFAULT_TRUES ==
    {<<Lower(19), Lower(17), Lower(20), Lower(4)>>, <<Lower(19)>>,
     <<Lower(24), Lower(4), Lower(18)>>, <<Lower(24)>>, <<Chr.Zero + 1>>}

_DEFAULT_FALSES ==
    {<<Lower(5), Lower(0), Lower(11), Lower(18), Lower(4)>>, <<Lower(5)>>,
     <<Lower(13), Lower(14)>>, <<Lower(13)>>, <<Chr.Zero>>}

\* str(True) and str(False)
StrOfBool(b) ==
    IF b THEN <<Chr.A + 19, Lower(17), Lower(20), Lower(4)>>
    ELSE <<Chr.A + 5, Lower(0), Lower(11), Lower(18), Lower(4)>>

\* loads of an unsourced inner parser on an object: [err, value].
inner_loads(p, argument) ==
    CASE p.parser = "IntParser" ->
            \* int(argument, base) takes a str only
            IF ~IsStr(argument)
            THEN [err |-> Some("TypeError"), value |-> NoneV]
            ELSE LET r == IntParser_loads(argument.str, 36, TRUE)
                 IN  [err |-> r.err, value |-> IntV(r.value)]
      [] p.parser = "StringParser" -> [err |-> None, value |-> argument]
      [] p.parser = "BoolParser" ->
            IF IsStr(argument) /\ argument.str \in _DEFAULT_TRUES
            THEN [err |-> None, value |-> BoolV(TRUE)]
            ELSE IF IsStr(argument) /\ argument.str \in _DEFAULT_FALSES
            THEN [err |-> None, value |-> BoolV(FALSE)]
            ELSE [err |-> Some("ValueError"), value |-> NoneV]
      [] p.parser = "NoneParser" ->
            IF ~Truthy(argument) \/ ~p.strict
            THEN [err |-> None, value |-> NoneV]
            ELSE [err |-> Some("ValueError"), value |-> NoneV]

\* dumps of an inner parser on an object: [err, value]; StringParser hands
\* back whatever it is given.
inner_dumps(p, argument) ==
    CASE p.parser = "IntParser" ->
            IF IsInt(argument)
            THEN [err |-> None, value |-> StrV(IntParser_dumps(argument.int, 36))]
            ELSE IF IsBool(argument)
            THEN [err |-> None, value |-> StrV(StrOfBool(argument.bool))]
            ELSE [err |-> Some("TypeError"), value |-> NoneV]
      [] p.parser = "StringParser" -> [err |-> None, value |-> argument]
      [] p.parser = "BoolParser" ->
            [err |-> None,
             value |-> StrV(IF Truthy(argument) THEN <<Chr.Zero + 1>> ELSE <<Chr.Zero>>)]
      [] p.parser = "NoneParser" ->
            IF IsNone(argument) \/ ~p.strict
            THEN [err |-> None, value |-> StrV(<<>>)]
            ELSE [err |-> Some("ValueError"), value |-> NoneV]

\* The None of a constructor argument list.
NoneArg == [parser |-> "None"]

\* NoneParser.default(type(None)): base.py:151-164 with builtins.py:63-64.
NoneParser_default == [parser |-> "NoneParser", strict |-> TRUE]

\* get_parser of a member type of a union.
member_parser(type_) ==
    IF type_ = "NoneType" THEN NoneParser_default
    ELSE [parser |-> Get(_get_parser_type(type_))]

NoUnion == [optional |-> FALSE, inner_parsers |-> <<>>]

\* UnionParser.__init__: [err, parser].
UnionParser_init(inner_parsers) ==
    IF Len(inner_parsers) < 2
    THEN [err |-> Some("TypeError"), parser |-> NoUnion]
    ELSE LET optional == \E k \in 1..Len(inner_parsers) : inner_parsers[k] = NoneArg
             kept == SelectSeq(inner_parsers, LAMBDA parser : parser # NoneArg)
         IN  [err |-> None,
              parser |-> [optional |-> optional,
                          inner_parsers |-> IF optional
                                            THEN Append(kept, NoneParser_default)
                                            ELSE kept]]

\* UnionParser.default: the parser of every argument of the union type,
\* handed to the constructor.
UnionParser_default(args) ==
    UnionParser_init([k \in 1..Len(args) |-> member_parser(args[k])])

\* The property UnionParser.strict.
UnionParser_strict(p) ==
    IF ~p.optional THEN TRUE
    ELSE p.inner_parsers[Len(p.inner_parsers)].strict

\* The setter of UnionParser.strict: [err, parser].
UnionParser_set_strict(p, strict) ==
    IF ~p.optional
    THEN [err |-> Some("RuntimeError"), parser |-> p]
    ELSE [err |-> None,
          parser |-> [p EXCEPT !.inner_parsers[Len(p.inner_parsers)].strict = strict]]

RECURSIVE try_each(_, _, _, _)
try_each(call(_, _), inner_parsers, argument, k) ==
    IF k > Len(inner_parsers)
    THEN [err |-> Some("RuntimeError"), value |-> NoneV,
          tried |-> [j \in 1..Len(inner_parsers) |-> j]]
    ELSE IF call(inner_parsers[k], argument).err = None
    THEN [err |-> None, value |-> call(inner_parsers[k], argument).value,
          tried |-> [j \in 1..k |-> j]]
    ELSE try_each(call, inner_parsers, argument, k + 1)

\* A loads that tries the inner parsers from the last to the first.
UnionParser_loads_backwards(p, argument) ==
    IF ~Truthy(argument) /\ p.optional
    THEN [err |-> None, value |-> NoneV, tried |-> <<>>]
    ELSE LET r == try_each(inner_loads, Reverse(p.inner_parsers), argument, 1)
         IN  [r EXCEPT !.tried = [j \in 1..Len(r.tried) |->
                                     Len(p.inner_parsers) + 1 - j]]

\* UnionParser.loads: [err, value, tried], tried the inner parsers called.
UnionParser_loads(p, argument) ==
    IF ~Truthy(argument) /\ p.optional
    THEN [err |-> None, value |-> NoneV, tried |-> <<>>]
    ELSE try_each(inner_loads, p.inner_parsers, argument, 1)

\* UnionParser.dumps: [err, value].
UnionParser_dumps(p, argument) ==
    IF ~Truthy(argument) /\ p.optional
    THEN [err |-> None, value |-> StrV(<<>>)]
    ELSE LET r == try_each(inner_dumps, p.inner_parsers, argument, 1)
         IN  IF r.err = None THEN [err |-> None, value |-> r.value]
             ELSE IF p.optional /\ ~UnionParser_strict(p)
             THEN [err |-> None, value |-> StrV(<<>>)]
             ELSE [err |-> Some("RuntimeError"), value |-> NoneV]

MemberTypes == {"int", "str", "bool", "NoneType"}

\* The member lists a union is declared with: any list for the
\* constructor, distinct types (two at least) for a union type.
Declared ==
    LET lists == UNION {[1..n -> MemberTypes] : n \in 1..MaxUnion}
    IN  {[by |-> "constructor", members |-> m] : m \in lists}
          \cup {[by |-> "default", members |-> m] :
                  m \in {l \in lists : /\ Len(l) > 1
                                       /\ \A j, k \in 1..Len(l) : l[j] = l[k] => j = k}}

\* The strings loaded: "", "5", "t" and "-".
UnionStrings == {<<>>, <<Chr.Zero + 5>>, <<Lower(19)>>, <<Chr.Minus>>}

\* The values dumped: None, 0, 5, 40, False, True, "" and "B|".
UnionValues ==
    {NoneV} \cup {IntV(n) : n \in {0, 5, 40}} \cup {BoolV(b) : b \in BOOLEAN}
        \cup {StrV(s) : s \in {<<>>, <<Chr.B, Chr.Pipe>>}}

UnionNew ==
    /\ last.op = "none"
    /\ \E r \in {IF sample.by = "default"
                 THEN UnionParser_default(sample.members)
                 ELSE UnionParser_init(
                          [k \in 1..Len(sample.members) |->
                              IF sample.members[k] = "NoneType" THEN NoneArg
                              ELSE member_parser(sample.members[k])])} :
          /\ sample' = [sample EXCEPT !.parser = IF r.err = None THEN Some(r.parser)
                                                 ELSE None]
          /\ last' = CallWith("UnionParser", <<>>, "Union", None, <<>>, r.err, None)
    /\ UNCHANGED <<treeVars, configVars, hookVars, invVars, calls>>

UnionSetStrict(strict) ==
    /\ last.op = "UnionParser"
    /\ sample.parser # None
    /\ \E r \in {UnionParser_set_strict(Get(sample.parser), strict)} :
          /\ sample' = [sample EXCEPT !.parser = Some(r.parser)]
          /\ last' = CallWith("UnionParser.strict", <<>>, "Union", None, <<>>,
                              r.err, None)
    /\ UNCHANGED <<treeVars, configVars, hookVars, invVars, calls>>

UnionLoads ==
    /\ last.op \in {"UnionParser", "UnionParser.strict"}
    /\ sample.parser # None
    /\ \E r \in {UnionParser_loads(Get(sample.parser), StrV(sample.argument))} :
          last' = CallWith("UnionParser.loads", <<>>, "Union", None,
                           sample.argument, r.err, Some(r))
    /\ UNCHANGED <<treeVars, configVars, hookVars, invVars, calls, sample>>

UnionDumps ==
    /\ last.op \in {"UnionParser", "UnionParser.strict"}
    /\ sample.parser # None
    /\ \E r \in {UnionParser_dumps(Get(sample.parser), sample.value)} :
          last' = CallWith("UnionParser.dumps", <<>>, "Union", None, <<>>,
                           r.err, Some(r))
    /\ UNCHANGED <<treeVars, configVars, hookVars, invVars, calls, sample>>

UnionLoadsDumped ==
    /\ last.op = "UnionParser.dumps"
    /\ last.err = None
    /\ \E r \in {UnionParser_loads(Get(sample.parser), Get(last.result).value)} :
          last' = CallWith("UnionParser.loads(dumps)", <<>>, "Union", None,
                           <<>>, r.err, Some(r))
    /\ UNCHANGED <<treeVars, configVars, hookVars, invVars, calls, sample>>

InitUnion ==
    /\ TreeCreated
    /\ InitConfig
    /\ InitHooks
    /\ InitInv
    /\ last = NoCall
    /\ calls = 0
    /\ sample \in {[by |-> d.by, members |-> d.members, argument |-> argument,
                    value |-> value, parser |-> None] :
                     d \in Declared, argument \in UnionStrings, value \in UnionValues}

NextUnion ==
    \/ UnionNew
    \/ \E strict \in BOOLEAN : UnionSetStrict(strict)
    \/ UnionLoads
    \/ UnionDumps
    \/ UnionLoadsDumped

SpecUnion == InitUnion /\ [][NextUnion]_vars

\* The inner parsers whose loads accepts the string.
Loading(p, argument) ==
    {k \in 1..Len(p.inner_parsers) : inner_loads(p.inner_parsers[k], argument).err = None}

\* C28: UnionParser.loads returns None without calling an inner parser when
\* the input is empty and the union is optional; otherwise it returns the
\* result of the first inner parser, in order, whose loads succeeds, the
\* errors of the parsers before it suppressed, and raises only when every
\* inner parser failed.
C28_FirstInnerParserWins ==
    last.op = "UnionParser.loads" =>
        LET p == Get(sample.parser)
            argument == StrV(sample.argument)
            r == Get(last.result)
            ok == Loading(p, argument)
        IN  IF sample.argument = <<>> /\ p.optional
            THEN last.err = None /\ r.value = NoneV /\ r.tried = <<>>
            ELSE IF ok # {}
            THEN LET first == CHOOSE k \in ok : \A j \in ok : k <= j
                 IN  /\ last.err = None
                     /\ r.value = inner_loads(p.inner_parsers[first], argument).value
                     /\ r.tried = [j \in 1..first |-> j]
            ELSE /\ last.err = Some("RuntimeError")
                 /\ Len(r.tried) = Len(p.inner_parsers)

\* UnionParser(IntParser(), StringParser()) has loaded "5": the integer 5.
C28_Witness ==
    /\ last.op = "UnionParser.loads"
    /\ sample.by = "constructor"
    /\ sample.members = <<"int", "str">>
    /\ sample.argument = <<Chr.Zero + 5>>
    /\ Get(last.result).value = IntV(5)
    /\ Get(last.result).tried = <<1>>

\* Whether None is among the declared members.
DeclaresNone == \E k \in DOMAIN sample.members : sample.members[k] = "NoneType"

\* C29: a union parser whose declared members include None, built by the
\* constructor or by default from a union type, is optional and has exactly
\* one none-parser among its inner parsers, strict and in the last place.
C29_NoneParserLast ==
    (last.op = "UnionParser" /\ last.err = None /\ DeclaresNone) =>
        LET p == Get(sample.parser)
            nones == {k \in 1..Len(p.inner_parsers) :
                         p.inner_parsers[k].parser = "NoneParser"}
        IN  /\ p.optional
            /\ nones = {Len(p.inner_parsers)}
            /\ p.inner_parsers[Len(p.inner_parsers)].strict

\* The part of C29 that the code keeps: the parsers built by passing None
\* to the constructor.
C29_ConstructorNoneLast ==
    sample.by = "constructor" => C29_NoneParserLast

\* The values an inner parser is made for.
InDomain(p, x) ==
    \E k \in 1..Len(p.inner_parsers) :
        \/ p.inner_parsers[k].parser = "IntParser" /\ IsInt(x)
        \/ p.inner_parsers[k].parser = "StringParser" /\ IsStr(x)
        \/ p.inner_parsers[k].parser = "BoolParser" /\ IsBool(x)
        \/ p.inner_parsers[k].parser = "NoneParser" /\ IsNone(x)

\* C30: for an optional union parser loads(dumps(x)) == x for None and for
\* every x in the domain of one of its inner parsers, 0 and False included.
C30_OptionalUnionRoundTrip ==
    (sample.parser # None /\ Get(sample.parser).optional
        /\ InDomain(Get(sample.parser), sample.value)) =>
        /\ last.op = "UnionParser.dumps" => last.err = None
        /\ last.op = "UnionParser.loads(dumps)" =>
              /\ last.err = None
              /\ PyEq(Get(last.result).value, sample.value)

\* The part of C30 that the code keeps: None itself.
C30_NoneRoundTrip ==
    IsNone(sample.value) => C30_OptionalUnionRoundTrip

(***************************************************************************)
(* The collection parser: a list of elements of one inner parser.          *)
(***************************************************************************)
\* The largest number of elements of a collection.
MaxItems == 2

Comma == 44
Space == 32

\* str.isspace(): not empty and whitespace only.
IsSpace(s) == s # <<>> /\ \A k \in 1..Len(s) : s[k] = Space

\* The separators a collection parser is built with: ",", ":" and "||".
CollectionSeps == {<<Comma>>, <<Chr.Colon>>, <<Chr.Pipe, Chr.Pipe>>}

CollectionInner == {"StringParser", "IntParser"}

\* The elements: the strings "", "A", " " and ":" and the integers 0, 5, 40.
CollectionItems(inner) ==
    IF inner = "StringParser"
    THEN {StrV(s) : s \in {<<>>, <<Chr.A>>, <<Space>>, <<Chr.Colon>>}}
    ELSE {IntV(n) : n \in {0, 5, 40}}

RECURSIVE each_part(_, _, _, _)
each_part(call(_, _), p, parts, acc) ==
    IF parts = <<>> THEN [err |-> None, value |-> acc]
    ELSE IF call(p, Head(parts)).err # None
    THEN [err |-> call(p, Head(parts)).err, value |-> acc]
    ELSE each_part(call, p, Tail(parts), Append(acc, call(p, Head(parts)).value))

\* CollectionParser.loads with collection_type list: [err, value].
CollectionParser_loads(p, argument) ==
    IF p.sep = <<>>
    THEN [err |-> Some("ValueError"), value |-> <<>>]
    ELSE LET parts == SelectSeq(Split(argument, p.sep), LAMBDA part : ~IsSpace(part))
         IN  each_part(inner_loads, p.inner_parser,
                       [k \in 1..Len(parts) |-> StrV(parts[k])], <<>>)

\* A dumps that joins with the parser's own separator.
CollectionParser_dumps_sep(p, argument) ==
    LET r == each_part(inner_dumps, p.inner_parser, argument, <<>>)
    IN  IF r.err # None THEN [err |-> r.err, value |-> <<>>]
        ELSE [err |-> None,
              value |-> Join(p.sep, [k \in 1..Len(r.value) |-> r.value[k].str])]

\* CollectionParser.dumps: the dumped elements joined with ",".
CollectionParser_dumps(p, argument) ==
    LET r == each_part(inner_dumps, p.inner_parser, argument, <<>>)
    IN  IF r.err # None THEN [err |-> r.err, value |-> <<>>]
        ELSE [err |-> None,
              value |-> Join(<<Comma>>, [k \in 1..Len(r.value) |-> r.value[k].str])]

CollectionDumps ==
    /\ last.op = "none"
    /\ \E r \in {CollectionParser_dumps(sample.parser, sample.xs)} :
          last' = CallWith("CollectionParser.dumps", <<>>, "Collection", None,
                           r.value, r.err, None)
    /\ UNCHANGED <<treeVars, configVars, hookVars, invVars, calls, sample>>

CollectionLoads ==
    /\ last.op = "CollectionParser.dumps"
    /\ last.err = None
    /\ \E r \in {CollectionParser_loads(sample.parser, last.custom_id)} :
          last' = CallWith("CollectionParser.loads", <<>>, "Collection", None,
                           last.custom_id, r.err, Some(r.value))
    /\ UNCHANGED <<treeVars, configVars, hookVars, invVars, calls, sample>>

InitCollection ==
    /\ TreeCreated
    /\ InitConfig
    /\ InitHooks
    /\ InitInv
    /\ last = NoCall
    /\ calls = 0
    /\ sample \in UNION {{[parser |-> [sep |-> separator, inner_parser |-> [parser |-> inner]],
                           xs |-> xs] :
                            separator \in CollectionSeps,
                            xs \in SeqsOf(CollectionItems(inner), 0, MaxItems)} :
                         inner \in CollectionInner}

NextCollection == CollectionDumps \/ CollectionLoads

SpecCollection == InitCollection /\ [][NextCollection]_vars

\* No dumped element holds the parser's separator.
SepFree ==
    \A k \in 1..Len(sample.xs) :
        ~Contains(inner_dumps(sample.parser.inner_parser, sample.xs[k]).value.str,
                  sample.parser.sep)

\* C31: for a CollectionParser with any separator and inner parser,
\* loads(dumps(xs)) = xs for every collection xs of in-domain elements whose
\* dumped forms do not contain the separator, the empty one included.
C31_CollectionRoundTrip ==
    SepFree =>
        /\ last.op = "CollectionParser.dumps" => last.err = None
        /\ last.op = "CollectionParser.loads" =>
              last.err = None /\ last.result = Some(sample.xs)

\* The part of C31 that the code keeps: the separator ",", at least one
\* element, and no element that is dumped as whitespace.
C31_CommaRoundTrip ==
    (/\ sample.parser.sep = <<Comma>>
     /\ sample.xs # <<>>
     /\ \A k \in 1..Len(sample.xs) :
           ~IsSpace(inner_dumps(sample.parser.inner_parser, sample.xs[k]).value.str))
        => C31_CollectionRoundTrip

(***************************************************************************)
(* The enum parser with its two ways of storing a member: by value and by  *)
(* name.  An enum class is its members, each a name and a value, and the   *)
(* data type mixed into the class, if any.                                 *)
(***************************************************************************)
EnumClasses == {"Mixed", "Ints", "Strs", "IntMixin", "StrMixin"}

\* _member_type_: the data type an enum class is mixed with, "object" for
\* a plain enum.Enum.
_member_type_(enum_class) ==
    CASE enum_class = "IntMixin" -> "int"
      [] enum_class = "StrMixin" -> "str"
      [] OTHER -> "object"

\* The members, in order of definition.
EnumMembers(enum_class) ==
    CASE enum_class = "Mixed" ->
            << [name |-> <<Chr.A>>, value |-> IntV(1)],
               [name |-> <<Chr.B>>, value |-> StrV(<<Chr.X>>)],
               [name |-> <<Chr.X>>, value |-> IntV(0)] >>
      [] enum_class \in {"Ints", "IntMixin"} ->
            << [name |-> <<Chr.A>>, value |-> IntV(1)],
               [name |-> <<Chr.B>>, value |-> IntV(40)],
               [name |-> <<Chr.X>>, value |-> IntV(0)] >>
      [] OTHER ->
            << [name |-> <<Chr.A>>, value |-> StrV(<<Chr.X>>)],
               [name |-> <<Chr.B>>, value |-> StrV(<<Chr.B>>)],
               [name |-> <<Chr.X>>, value |-> StrV(<<>>)] >>

TypeOfValue(x) == IF IsInt(x) THEN "int" ELSE IF IsStr(x) THEN "str"
                  ELSE IF IsBool(x) THEN "bool" ELSE "NoneType"

\* enum.py:17-36 on the members: the one type of the values, None when the
\* members differ in type.
_get_enum_type_of(enum_class) ==
    LET members == EnumMembers(enum_class)
        maybe_type == TypeOfValue(members[1].value)
    IN  IF _member_type_(enum_class) # "object"
        THEN Some(_member_type_(enum_class))
        ELSE IF \A k \in 2..Len(members) : TypeOfValue(members[k].value) = maybe_type
        THEN Some(maybe_type)
        ELSE None

NoEnumParser == [enum_class |-> "-", store_by_value |-> FALSE,
                 value_parser |-> [parser |-> "StringParser"]]

\* EnumParser.__init__: [err, parser].
EnumParser_init(enum_class, store_by_value) ==
    LET value_type == _get_enum_type_of(enum_class)
    IN  IF value_type = None /\ store_by_value
        THEN [err |-> Some("ValueError"), parser |-> NoEnumParser]
        ELSE [err |-> None,
              parser |-> [enum_class |-> enum_class,
                          store_by_value |-> store_by_value,
                          value_parser |-> member_parser(IF value_type = None THEN "str"
                                                         ELSE Get(value_type))]]

\* EnumParser.default
EnumParser_default(type_) ==
    EnumParser_init(type_, _get_enum_type_of(type_) # None)

\* EnumParser.dumps of a member: [err, value].
EnumParser_dumps(p, argument) ==
    IF p.store_by_value
    THEN inner_dumps(p.value_parser, argument.value)
    ELSE inner_dumps(p.value_parser, StrV(argument.name))

\* enum_class(value) and enum_class[name]: the members found.
ByValue(enum_class, value) ==
    {k \in DOMAIN EnumMembers(enum_class) :
        PyEq(EnumMembers(enum_class)[k].value, value)}

ByName(enum_class, name) ==
    {k \in DOMAIN EnumMembers(enum_class) :
        IsStr(name) /\ EnumMembers(enum_class)[k].name = name.str}

\* EnumParser.loads: [err, value], value the member's place, 0 on error.
EnumParser_loads(p, argument) ==
    LET parsed == inner_loads(p.value_parser, argument)
        found  == IF p.store_by_value THEN ByValue(p.enum_class, parsed.value)
                  ELSE ByName(p.enum_class, parsed.value)
    IN  IF parsed.err # None THEN [err |-> parsed.err, value |-> 0]
        ELSE IF found = {}
        THEN [err |-> Some(IF p.store_by_value THEN "ValueError" ELSE "KeyError"),
              value |-> 0]
        ELSE [err |-> None, value |-> CHOOSE k \in found : \A j \in found : k <= j]

EnumNew ==
    /\ last.op = "none"
    /\ \E r \in {IF sample.store_by_value = "default"
                 THEN EnumParser_default(sample.enum_class)
                 ELSE EnumParser_init(sample.enum_class,
                                      sample.store_by_value = "True")} :
          /\ sample' = [sample EXCEPT !.parser = IF r.err = None THEN Some(r.parser)
                                                 ELSE None]
          /\ last' = CallWith("EnumParser", <<>>, sample.enum_class, None, <<>>,
                              r.err, None)
    /\ UNCHANGED <<treeVars, configVars, hookVars, invVars, calls>>

EnumDumps ==
    /\ last.op = "EnumParser"
    /\ sample.parser # None
    /\ \E r \in {EnumParser_dumps(Get(sample.parser),
                                  EnumMembers(sample.enum_class)[sample.member])} :
          last' = CallWith("EnumParser.dumps", <<>>, sample.enum_class, None, <<>>,
                           r.err, Some(r.value))
    /\ UNCHANGED <<treeVars, configVars, hookVars, invVars, calls, sample>>

EnumLoads ==
    /\ last.op = "EnumParser.dumps"
    /\ last.err = None
    /\ \E r \in {EnumParser_loads(Get(sample.parser), Get(last.result))} :
          last' = CallWith("EnumParser.loads", <<>>, sample.enum_class, None, <<>>,
                           r.err, Some(r.value))
    /\ UNCHANGED <<treeVars, configVars, hookVars, invVars, calls, sample>>

InitEnum ==
    /\ TreeCreated
    /\ InitConfig
    /\ InitHooks
    /\ InitInv
    /\ last = NoCall
    /\ calls = 0
    /\ sample \in {[enum_class |-> enum_class, store_by_value |-> store_by_value,
                    member |-> member, parser |-> None] :
                     enum_class \in EnumClasses,
                     store_by_value \in {"default", "True", "False"},
                     member \in 1..3}

NextEnum == EnumNew \/ EnumDumps \/ EnumLoads

SpecEnum == InitEnum /\ [][NextEnum]_vars

StoresByName == sample.parser # None /\ ~Get(sample.parser).store_by_value

\* C32: an EnumParser that stores by name has a string parser as its value
\* parser, dumps a member as its name and loads it back, for enums of mixed
\* value types and for store_by_value=False on an enum of one value type.
C32_ByNameRoundTrip ==
    StoresByName =>
        /\ Get(sample.parser).value_parser.parser = "StringParser"
        /\ last.op = "EnumParser.dumps" =>
              /\ last.err = None
              /\ last.result =
                    Some(StrV(EnumMembers(sample.enum_class)[sample.member].name))
        /\ last.op = "EnumParser.loads" =>
              last.err = None /\ last.result = Some(sample.member)

\* The part of C32 that the code keeps: enums of mixed value types and
\* enums whose values are strings.
C32_ByNameUnlessOtherValueType ==
    _get_enum_type_of(sample.enum_class) \in {None, Some("str")}
        => C32_ByNameRoundTrip

(***************************************************************************)
(* Managers and the bot.  `_bot` is the attribute of every manager,        *)
(* `listeners` the callbacks the bot's event manager holds for             *)
(* InteractionCreateEvent, each the invoke of a manager, in the order of   *)
(* subscription.                                                           *)
(***************************************************************************)
NoBot == [_bot |-> [n \in Names |-> None], listeners |-> <<>>]

\* list.remove: the sequence without the first occurrence of x.
RemoveFirst(s, x) ==
    IF \E k \in 1..Len(s) : s[k] = x
    THEN LET k == CHOOSE k \in 1..Len(s) : s[k] = x /\ \A j \in 1..(k - 1) : s[j] # x
         IN  SubSeq(s, 1, k - 1) \o SubSeq(s, k + 1, Len(s))
    ELSE s

\* manager.py:568-578
AddToBot(name) ==
    /\ pc = "idle"
    /\ name \in _MANAGER_STORE
    /\ IF _recurse_parents_getattr(name, sample._bot, "None") # "None"
       THEN /\ sample' = sample
            /\ last' = Call("add_to_bot", name, "-", None, <<>>, Some("RuntimeError"))
       ELSE /\ sample' = [_bot |-> [sample._bot EXCEPT ![name] = Some("bot")],
                          listeners |-> Append(sample.listeners, name)]
            /\ last' = Call("add_to_bot", name, "-", None, <<>>, None)
    /\ UNCHANGED <<treeVars, configVars, hookVars, invVars, calls>>

\* manager.py:580-589.  What the event manager does with a callback it does
\* not hold is the library's: it ignores the call or raises ValueError.
RemoveFromBot(name) ==
    /\ pc = "idle"
    /\ name \in _MANAGER_STORE
    /\ IF _recurse_parents_getattr(name, sample._bot, "None") # "None"
       THEN /\ sample' = sample
            /\ last' = Call("remove_from_bot", name, "-", None, <<>>,
                            Some("RuntimeError"))
       ELSE /\ sample' = [sample EXCEPT !.listeners = RemoveFirst(@, name)]
            /\ \E err \in IF name \in Range(sample.listeners) THEN {None}
                          ELSE {None, Some("ValueError")} :
                  last' = Call("remove_from_bot", name, "-", None, <<>>, err)
    /\ UNCHANGED <<treeVars, configVars, hookVars, invVars, calls>>

\* An interaction with a component registered on owner: the event manager
\* calls every listener, and the invoke of each manager that holds the
\* component (owner and its ancestors, manager.py:511-542) runs it.
DispatchInteraction(owner) ==
    /\ pc = "idle"
    /\ owner \in _MANAGER_STORE
    /\ last' = CallWith("dispatch", owner, "-", None, <<>>, None,
                        Some(SelectSeq(sample.listeners,
                                       LAMBDA m : IsSelfOrAncestor(m, owner))))
    /\ UNCHANGED <<treeVars, configVars, hookVars, invVars, calls, sample>>

InitBot ==
    /\ TreeCreated
    /\ InitConfig
    /\ InitHooks
    /\ InitInv
    /\ last = NoCall
    /\ calls = 0
    /\ sample = NoBot

NextBot ==
    \/ \E name \in Names : AddToBot(name)
    \/ \E name \in Names : RemoveFromBot(name)
    \/ \E owner \in Names : DispatchInteraction(owner)

SpecBot == InitBot /\ [][NextBot]_vars

\* C33: remove_from_bot on a manager registered to the bot unsubscribes its
\* invoke and succeeds, RuntimeError being for a manager that is not
\* registered; afterwards the manager is no longer registered, so that
\* add_to_bot can be called again.
C33_RemoveFromBotSucceeds ==
    [][ (last'.op = "remove_from_bot" /\ sample._bot[last'.mgr] # None) =>
          /\ last'.err = None
          /\ last'.mgr \notin Range(sample'.listeners)
          /\ sample'._bot[last'.mgr] = None
      ]_vars

\* C36: after add_to_bot calls in any order at most one manager of any
\* root-to-node chain is subscribed, so that one interaction runs a
\* component's callback at most once.
C36_OneListenerPerChain ==
    /\ \A n \in Names :
          Cardinality({k \in DOMAIN sample.listeners :
                          IsSelfOrAncestor(sample.listeners[k], n)}) <= 1
    /\ last.op = "dispatch" => Len(Get(last.result)) <= 1

\* The part of C36 that the code keeps: no manager is subscribed while one
\* of its ancestors already is.
C36_NoListenerBelowListener ==
    [][ (last'.op = "add_to_bot" /\ last'.err = None /\ sample' # sample) =>
          \A k \in DOMAIN sample.listeners :
             ~IsSelfOrAncestor(sample.listeners[k], last'.mgr)
      ]_vars

(***************************************************************************)
(* Component types and the manager they belong to: registration,           *)
(* deregistration, and make_custom_id called on an instance.               *)
(***************************************************************************)
\* base.py:174-199: ComponentBase.make_custom_id, which hands over to the
\* make_custom_id of the type's manager.
ComponentMakeCustomId(component) ==
    /\ last.op # "make_custom_id"
    /\ IF type_manager[component.type] = None
       THEN /\ pc = "idle"
            /\ last' = CallWith("make_custom_id", <<>>, component.type, None, <<>>,
                                component_make_custom_id(component).err,
                                Some(component))
            /\ UNCHANGED <<treeVars, configVars, hookVars, invVars>>
       ELSE MakeCustomIdCall(Get(type_manager[component.type]), component)
    /\ UNCHANGED <<calls, sample>>

NextOwner ==
    \/ \E name \in Names, t \in DispatchTypes, identifier \in ExplicitIdentifiers :
          RegisterComponent(name, t, identifier)
    \/ \E name \in Names, t \in DispatchTypes : DeregisterComponent(name, t)
    \/ \E component \in Components : ComponentMakeCustomId(component)

SpecOwner == Init /\ [][NextOwner]_vars

\* The managers that hold a type among their components, and the
\* identifiers they hold it under.
RegisteredOn(t) ==
    {n \in Names : \E i \in Identifiers : _components[n][i] = Some(t)}

IdentifiersOf(t) ==
    {i \in Identifiers : \E n \in Names : _components[n][i] = Some(t)}

\* C34: a component type's manager attribute is the manager the type is
\* registered to, and None when it is registered to none (after its
\* deregistration in particular), so that make_custom_id on an instance of
\* an unregistered type raises RuntimeError.
C34_ManagerAttributeFollowsRegistration ==
    /\ [](\A t \in Types :
            IF RegisteredOn(t) = {}
            THEN type_manager[t] = None
            ELSE /\ type_manager[t] # None
                 /\ Get(type_manager[t]) \in RegisteredOn(t))
    /\ [][ (last'.op = "make_custom_id" /\ RegisteredOn(last'.type) = {}) =>
              last'.err = Some("RuntimeError") ]_vars

\* The part of C34 that the code keeps: a type that was never registered
\* has no manager, and make_custom_id on its instance raises RuntimeError.
C34_NeverRegisteredHasNoManager ==
    [][ (last'.op = "make_custom_id" /\ type_manager[last'.type] = None) =>
           last'.err = Some("RuntimeError") /\ UNCHANGED _counter ]_vars

\* C37: make_custom_id for an instance begins with the identifier under
\* which the instance's own type was registered, also when two registered
\* types have the same class name.
C37_OwnIdentifierLeads ==
    (/\ last.op = "make_custom_id"
     /\ last.err = None
     /\ IdentifiersOf(last.type) # {})
        => \E i \in IdentifiersOf(last.type) :
              /\ Len(last.custom_id) >= Len(i)
              /\ SubSeq(last.custom_id, 1, Len(i)) = i

\* The part of C37 that the code keeps: the custom id begins with the
\* identifier the manager has recorded for the class name.
C37_RecordedIdentifierLeads ==
    (last.op = "make_custom_id" /\ last.err = None) =>
        LET i == Get(_identifiers[last.mgr][ClassName(last.type)])
        IN  SubSeq(last.custom_id, 1, Len(i)) = i

(***************************************************************************)
(* A custom id made by one manager and decoded by another: the manager a   *)
(* component is registered to makes it, the manager subscribed to the bot  *)
(* (the manager itself or one of its ancestors) decodes it.                *)
(***************************************************************************)
\* manager.py:668-685, 348-397, 314-325: invoke of the receiving manager
\* parses the interaction with its own get_identifier.
DecodeOnReceiver ==
    /\ pc = "idle"
    /\ last.op = "encode"
    /\ \E d \in {get_identifier(sample.receiver, last.custom_id)} :
          last' = CallWith("decode", sample.receiver, "-", None,
                           last.custom_id, None, Some(d))
    /\ UNCHANGED <<treeVars, configVars, hookVars, invVars, calls, sample>>

\* What config(sep=...) and config(count=...) have set on the root and on
\* "a.b".
RelaySeps == {None, Some(<<Chr.Colon>>)}

RelayCounts == {None, Some(TRUE), Some(FALSE)}

\* The managers exist, the root and "a.b" have been configured, "a.b" has
\* made some custom ids, and the identifier "A" and parameter strings "5"
\* and "" (none holds a separator or a count character) have been chosen.
InitRelay ==
    /\ TreeCreated
    /\ InitHooks
    /\ InitInv
    /\ last = NoCall
    /\ calls = 0
    /\ \E s \in RelaySeps, own \in RelaySeps :
          _sep = [n \in Names |-> IF n = _ROOT THEN s
                                  ELSE IF n = <<"a", "b">> THEN own ELSE None]
    /\ \E c \in RelayCounts, own \in RelayCounts :
          _count = [n \in Names |-> IF n = _ROOT THEN c
                                    ELSE IF n = <<"a", "b">> THEN own ELSE None]
    /\ sample \in [mgr : {<<"a", "b">>},
                   receiver : {_ROOT, <<"a">>, <<"a", "b">>},
                   identifier : {<<Chr.A>>},
                   params : SeqsOf({<<Chr.Zero + 5>>, <<>>}, 0, MaxParams)]
    /\ \E k \in {0, 24} :
          _counter = [n \in Names |-> IF n = sample.mgr THEN k ELSE 0]

NextRelay == Encode \/ DecodeOnReceiver

SpecRelay == InitRelay /\ [][NextRelay]_vars

\* C35: the custom id a manager makes is decoded by the manager that
\* receives the interaction (the manager or one of its ancestors) to the
\* same identifier and parameters, for every combination of sep and count
\* settings on the two.
C35_ReceiverDecodesWhatWasMade ==
    last.op = "decode" =>
        last.result = Some(<<sample.identifier, sample.params>>)

\* The part of C35 that the code keeps: the receiver decodes what was made
\* when the separator and the count setting in force on it are those in
\* force on the maker.
C35_SameSettingsDecode ==
    (/\ last.op = "decode"
     /\ sep(sample.receiver) = sep(sample.mgr)
     /\ count(sample.receiver) = count(sample.mgr)) =>
        last.result = Some(<<sample.identifier, sample.params>>)

---------------------------------------------------------------------------
(* Error handlers and the wrapper stack (checked under SpecInvoke).        *)

IsSwallow(e) == e.ev = "exit" /\ e.result = "swallow"

\* The last thing the callback or a wrapper did to the pending exception
\* was to swallow it: no wrapper exited later raised.
SwallowedForGood ==
    LET evs == SelectSeq(log, IsRaiseOrSwallow)
    IN  evs # <<>> /\ IsSwallow(evs[Len(evs)])

\* No handler is invoked before every entered wrapper has been exited,
\* and a handler is invoked only for an Exception that has left the
\* wrapper stack.
HandlersAfterTheStack ==
    Handles # <<>> =>
        /\ Len(Exits) = Len(Yields)
        /\ stack = <<>>
        /\ Escaped # None
        /\ Get(Escaped).kind = "Exception"

\* C38 (as claimed): no handler is invoked before every entered wrapper
\* has been exited, and when some wrapper swallowed the exception at its
\* yield no handler runs and the invocation returns normally.
C38_SwallowedNeverHandled ==
    /\ HandlersAfterTheStack
    /\ (pc = "done" /\ SelectSeq(log, IsSwallow) # <<>>) =>
          Handles = <<>> /\ outcome = Some(Returned)

\* C38 (amended): no handler is invoked before every entered wrapper has
\* been exited, and only for an Exception that leaves the whole stack;
\* when a wrapper swallowed the exception and no wrapper exited after it
\* raised, no handler runs and the invocation returns normally.
C38_SwallowedForGoodNeverHandled ==
    /\ HandlersAfterTheStack
    /\ (pc = "done" /\ SwallowedForGood) =>
          Handles = <<>> /\ outcome = Some(Returned)

\* C38 witness: the callback of a component of "a.b" raised an Exception,
\* the wrapper of "a.b" swallowed it, the root's wrapper was exited after
\* it, and the invocation returned although "a.b" and the root have
\* handlers.
C38_Witness ==
    /\ pc = "done"
    /\ Owner = <<"a", "b">>
    /\ _exception_handler[<<"a", "b">>] /\ _exception_handler[_ROOT]
    /\ \E i \in 1..Len(log) : log[i] = Event("callback", <<"a", "b">>, "raise", "Exception")
    /\ Len(Exits) = 2
    /\ Exits[1] = Event("exit", <<"a", "b">>, "swallow", "-")
    /\ Exits[2] = Event("exit", _ROOT, "return", "-")
    /\ Handles = <<>>
    /\ outcome = Some(Returned)

---------------------------------------------------------------------------
(* Parents and children (checked under SpecTree).                          *)

\* C39: parent and children agree for every live manager: a manager has
\* parent p exactly when it is a member of p.children, managers with
\* undotted names, whose parent is the root, included.
C39_ParentAndChildrenAgree ==
    \A m \in _MANAGER_STORE, p \in Names :
        (parent(m) = Some(p)) <=> (m \in _children[p])

\* The part of C39 that the code keeps: the agreement for managers with
\* dotted names, and no manager is a child of a manager that is not its
\* parent.
C39_DottedParentAndChildrenAgree ==
    /\ \A m \in _MANAGER_STORE, p \in Names :
          Len(m) > 1 => ((parent(m) = Some(p)) <=> (m \in _children[p]))
    /\ \A m \in Names, p \in Names :
          m \in _children[p] => (parent(m) = Some(p) /\ m \in _MANAGER_STORE)

---------------------------------------------------------------------------
(* Re-registration of a type (checked under SpecRegistry).                 *)

\* The type was registered to one parser class and later to another; the
\* parser class of the later call.
Reregistered(type_) ==
    \E j, k \in CallsFor(type_) :
        j < k /\ sample.registered[j].parser # sample.registered[k].parser

LatestParser(type_) ==
    sample.registered[CHOOSE k \in CallsFor(type_) :
                         \A j \in CallsFor(type_) : j <= k].parser

\* An unregistered subtype of type_ that matches no other registered type.
SubtypeOnlyOf(sub, type_) ==
    /\ sub # type_
    /\ type_ \in Bases(sub)
    /\ \A k \in DOMAIN sample.registered :
          sample.registered[k].types \cap Bases(sub) \subseteq {type_}

\* C40: after a type registered to parser P is registered again to parser
\* Q, every unregistered subtype of it that matches no other registered
\* type resolves to the parser the type itself resolves to, Q, whatever
\* the priorities of P and Q.
C40_SubtypesFollowReregistration ==
    IsResolution =>
        \A type_ \in ResolvedTypes :
            (/\ Reregistered(type_)
             /\ _get_parser_type_in(sample.reg, type_) = Some(LatestParser(type_))
             /\ SubtypeOnlyOf(last.type, type_)) =>
                last.result = Some(LatestParser(type_))

\* The part of C40 that the code keeps: the subtype resolves to Q when Q
\* was registered once, with force, and with a priority above that of
\* every other parser class registered for the type.
C40_SubtypesFollowForcedHigherPriority ==
    IsResolution =>
        \A type_ \in ResolvedTypes :
            (/\ Reregistered(type_)
             /\ SubtypeOnlyOf(last.type, type_)
             /\ \A k \in DOMAIN sample.registered :
                   sample.registered[k].parser = LatestParser(type_) =>
                      /\ k \in CallsFor(type_)
                      /\ sample.registered[k].force
                      /\ \A j \in CallsFor(type_) :
                            j = k \/ sample.registered[j].priority <
                                       sample.registered[k].priority) =>
                /\ last.result = _get_parser_type_in(sample.reg, type_)
                /\ last.result = Some(LatestParser(type_))
===========================================================================
